---- MODULE Spec2Model ----
(***************************************************************************)
(* Decision-tree core of the XAI project: buildDecisionTree,               *)
(* predictFromTree, the decision-path traversals of the DecisionTree       *)
(* component and calculateFeatureImportance.                               *)
(*                                                                         *)
(* Representation.                                                         *)
(*  - A column name or feature name is a sequence of one-character         *)
(*    strings, so that formatFeatureName can be computed on it.            *)
(*  - A cell value is [t |-> "num", n |-> i], [t |-> "str", s |-> "a"] or  *)
(*    Undefined (the result of reading a key an object does not have).     *)
(*  - An object (a DataPoint, an input, a counts map) is the sequence of    *)
(*    its entries [k |-> key, v |-> value] in insertion order.             *)
(*  - Entropies are kept in fixed point: NH(S) = |S| * entropy(S) * SCALE. *)
(*  - A numeric threshold is the rational p/q, a gain is num/den.          *)
(***************************************************************************)
EXTENDS Integers, Sequences, FiniteSets, TLC

VARIABLES
    data,        \* the records handed to buildDecisionTree
    target,      \* the target column name
    maxDepth,    \* the maxDepth argument
    pc,          \* position in the build / predict / explain sequence
    tree,        \* what buildDecisionTree returned (NotBuilt before the call)
    input,       \* the input object handed to the traversals
    result,      \* what predictFromTree returned
    path,        \* the decision path of highlightDecisionPath (part_000)
    legacyPath,  \* the decision path of highlightDecisionPath (DecisionTree.tsx)
    importance,  \* what calculateFeatureImportance returned
    clicked,     \* the position in the tree of the node last clicked
    remaining,   \* what findPathToLeaf returned for that click
    calls,       \* the calls of findBestSplit of a build, and what each returned
    loader,      \* the frame of a loadDataset call: its arguments and locals
    component,   \* which version of the DecisionTree component is mounted
    dataset,     \* the dataset prop of the component
    runs,        \* the loadData runs started so far, and how far each has got
    loading,     \* the component's loading state
    error,       \* the component's error state
    formFeatures, \* the component's features state (the form's fields)
    event        \* the callback of the component that ran last

appVars == <<loader, component, dataset, runs, loading, error, formFeatures, event>>

vars == <<data, target, maxDepth, pc, tree, input, result, path,
          legacyPath, importance, clicked, remaining, calls,
          loader, component, dataset, runs, loading, error, formFeatures, event>>

----------------------------------------------------------------------------
(* JavaScript values *)

Undefined == [t |-> "undef"]
Num(i) == [t |-> "num", n |-> i]
Str(x) == [t |-> "str", s |-> x]
NaN == [nan |-> TRUE]
Finite(i) == [nan |-> FALSE, v |-> i]

\* key in obj
HasKey(obj, key) == \E i \in DOMAIN obj : obj[i].k = key

\* obj[key]: the value, or undefined when the object has no such key.
Get(obj, key) ==
    IF HasKey(obj, key) THEN obj[CHOOSE i \in DOMAIN obj : obj[i].k = key].v
    ELSE Undefined

\* The numeric literals the model's strings can spell.
MaxLiteral == 50
NumericLiterals == {ToString(i) : i \in 0..MaxLiteral}
ParseLiteral(x) == CHOOSE i \in 0..MaxLiteral : ToString(i) = x

\* String(v)
String(v) ==
    CASE v.t = "num" -> ToString(v.n)
      [] v.t = "str" -> v.s
      [] OTHER -> "undefined"

\* Number(v): NaN for undefined and for a string that spells no number.
Number(v) ==
    CASE v.t = "num" -> Finite(v.n)
      [] v.t = "str" -> IF v.s \in NumericLiterals THEN Finite(ParseLiteral(v.s))
                        ELSE NaN
      [] OTHER -> NaN

\* typeof v === 'number'
IsNumber(v) == v.t = "num"

\* a <= p/q for a JS number a and the rational p/q (q > 0); false on NaN.
LeqRational(a, p, q) == ~a.nan /\ a.v * q <= p
\* a > p/q; false on NaN.
GtRational(a, p, q) == ~a.nan /\ a.v * q > p

----------------------------------------------------------------------------
(* Helpers standing for Array.prototype.map / reduce, Math.min, Math.max.   *)
(* Array.prototype.filter is SelectSeq.                                   *)

Range(seq) == {seq[i] : i \in DOMAIN seq}

RECURSIVE SumSeq(_)
SumSeq(seq) == IF seq = <<>> THEN 0 ELSE Head(seq) + SumSeq(Tail(seq))

Min2(a, b) == IF a <= b THEN a ELSE b
SetMin(S) == CHOOSE m \in S : \A o \in S : m <= o
SetMax(S) == CHOOSE m \in S : \A o \in S : m >= o

----------------------------------------------------------------------------
(* Feature names: formatFeatureName *)

featureMap ==
  <<
     [key |-> <<"c", "p">>,
      val |-> <<"C", "h", "e", "s", "t", " ", "P", "a", "i", "n", " ", "T", "y", "p", "e">>],
     [key |-> <<"t", "r", "e", "s", "t", "b", "p", "s">>,
      val |-> <<"R", "e", "s", "t", "i", "n", "g", " ", "B", "l", "o", "o", "d", " ", "P", "r", "e", "s", "s", "u", "r", "e">>],
     [key |-> <<"c", "h", "o", "l">>,
      val |-> <<"C", "h", "o", "l", "e", "s", "t", "e", "r", "o", "l">>],
     [key |-> <<"f", "b", "s">>,
      val |-> <<"F", "a", "s", "t", "i", "n", "g", " ", "B", "l", "o", "o", "d", " ", "S", "u", "g", "a", "r">>],
     [key |-> <<"r", "e", "s", "t", "e", "c", "g">>,
      val |-> <<"R", "e", "s", "t", "i", "n", "g", " ", "E", "C", "G">>],
     [key |-> <<"t", "h", "a", "l", "a", "c", "h">>,
      val |-> <<"M", "a", "x", " ", "H", "e", "a", "r", "t", " ", "R", "a", "t", "e">>],
     [key |-> <<"e", "x", "a", "n", "g">>,
      val |-> <<"E", "x", "e", "r", "c", "i", "s", "e", " ", "I", "n", "d", "u", "c", "e", "d", " ", "A", "n", "g", "i", "n", "a">>],
     [key |-> <<"o", "l", "d", "p", "e", "a", "k">>,
      val |-> <<"S", "T", " ", "D", "e", "p", "r", "e", "s", "s", "i", "o", "n">>],
     [key |-> <<"c", "a">>,
      val |-> <<"N", "u", "m", "b", "e", "r", " ", "o", "f", " ", "V", "e", "s", "s", "e", "l", "s">>],
     [key |-> <<"t", "h", "a", "l">>,
      val |-> <<"T", "h", "a", "l", "a", "s", "s", "e", "m", "i", "a">>],
     [key |-> <<"a", "p", "p", "l", "i", "c", "a", "n", "t", "_", "i", "n", "c", "o", "m", "e">>,
      val |-> <<"M", "o", "n", "t", "h", "l", "y", " ", "I", "n", "c", "o", "m", "e">>],
     [key |-> <<"l", "o", "a", "n", "_", "a", "m", "o", "u", "n", "t">>,
      val |-> <<"L", "o", "a", "n", " ", "A", "m", "o", "u", "n", "t">>],
     [key |-> <<"l", "o", "a", "n", "_", "t", "e", "r", "m">>,
      val |-> <<"L", "o", "a", "n", " ", "T", "e", "r", "m">>],
     [key |-> <<"c", "r", "e", "d", "i", "t", "_", "h", "i", "s", "t", "o", "r", "y">>,
      val |-> <<"C", "r", "e", "d", "i", "t", " ", "H", "i", "s", "t", "o", "r", "y">>],
     [key |-> <<"c", "a", "p", "i", "t", "a", "l", "-", "g", "a", "i", "n">>,
      val |-> <<"C", "a", "p", "i", "t", "a", "l", " ", "G", "a", "i", "n", "s">>],
     [key |-> <<"c", "a", "p", "i", "t", "a", "l", "-", "l", "o", "s", "s">>,
      val |-> <<"C", "a", "p", "i", "t", "a", "l", " ", "L", "o", "s", "s", "e", "s">>],
     [key |-> <<"h", "o", "u", "r", "s", "-", "p", "e", "r", "-", "w", "e", "e", "k">>,
      val |-> <<"H", "o", "u", "r", "s", " ", "p", "e", "r", " ", "W", "e", "e", "k">>],
     [key |-> <<"e", "d", "u", "c", "a", "t", "i", "o", "n", "-", "n", "u", "m">>,
      val |-> <<"Y", "e", "a", "r", "s", " ", "o", "f", " ", "E", "d", "u", "c", "a", "t", "i", "o", "n">>]
  >>

UpperOf ==
    ("a" :> "A") @@ ("b" :> "B") @@ ("c" :> "C") @@ ("d" :> "D") @@
    ("e" :> "E") @@ ("f" :> "F") @@ ("g" :> "G") @@ ("h" :> "H") @@
    ("i" :> "I") @@ ("j" :> "J") @@ ("k" :> "K") @@ ("l" :> "L") @@
    ("m" :> "M") @@ ("n" :> "N") @@ ("o" :> "O") @@ ("p" :> "P") @@
    ("q" :> "Q") @@ ("r" :> "R") @@ ("s" :> "S") @@ ("t" :> "T") @@
    ("u" :> "U") @@ ("v" :> "V") @@ ("w" :> "W") @@ ("x" :> "X") @@
    ("y" :> "Y") @@ ("z" :> "Z")

\* ch.toUpperCase(): letters a-z are mapped, every other character is kept.
toUpperCase(ch) == IF ch \in DOMAIN UpperOf THEN UpperOf[ch] ELSE ch

\* word.charAt(0).toUpperCase() + word.slice(1)
Capitalize(word) ==
    IF word = <<>> THEN <<>> ELSE <<toUpperCase(Head(word))>> \o Tail(word)

\* feature.split('_'): the words between underscores (empty words included).
RECURSIVE SplitUnderscore(_, _)
SplitUnderscore(name, word) ==
    IF name = <<>> THEN <<word>>
    ELSE IF Head(name) = "_"
         THEN <<word>> \o SplitUnderscore(Tail(name), <<>>)
         ELSE SplitUnderscore(Tail(name), Append(word, Head(name)))

\* words.join(' ')
RECURSIVE JoinSpace(_)
JoinSpace(words) ==
    IF words = <<>> THEN <<>>
    ELSE IF Len(words) = 1 THEN Head(words)
         ELSE Head(words) \o <<" ">> \o JoinSpace(Tail(words))

CapitalizeAll(words) == [i \in DOMAIN words |-> Capitalize(words[i])]

\* featureMap[feature] || feature.split('_').map(capitalize).join(' ')
formatFeatureName(feature) ==
    IF \E i \in DOMAIN featureMap : featureMap[i].key = feature
    THEN featureMap[CHOOSE i \in DOMAIN featureMap : featureMap[i].key = feature].val
    ELSE JoinSpace(CapitalizeAll(SplitUnderscore(feature, <<>>)))

----------------------------------------------------------------------------
(* Class counts: the counts / distribution objects of buildDecisionTree *)

\* counts[value] = (counts[value] || 0) + 1
Increment(counts, key) ==
    IF HasKey(counts, key)
    THEN [i \in DOMAIN counts |->
            IF counts[i].k = key THEN [k |-> key, v |-> counts[i].v + 1]
            ELSE counts[i]]
    ELSE Append(counts, [k |-> key, v |-> 1])

\* subset.forEach(row => { const value = String(row[target]); counts[value]++ })
\* (The test on Len(counts) never holds: it makes counts a value before the
\* following iteration, as the loop does, instead of a pending computation.)
RECURSIVE Tally(_, _, _)
Tally(subset, tgt, counts) ==
    IF subset = <<>> \/ Len(counts) < 0 THEN counts
    ELSE Tally(Tail(subset), tgt,
               Increment(counts, String(Get(Head(subset), tgt))))

getDistribution(subset, tgt) == Tally(subset, tgt, <<>>)

\* Property enumeration order of an object with string keys: the keys that
\* spell an array index come first, in ascending numeric order, then the
\* other keys in insertion order.
IsIndexKey(key) == key \in NumericLiterals

RECURSIVE InsertByIndex(_, _)
InsertByIndex(sorted, e) ==
    IF sorted = <<>> THEN <<e>>
    ELSE IF ParseLiteral(e.k) < ParseLiteral(Head(sorted).k)
         THEN <<e>> \o sorted
         ELSE <<Head(sorted)>> \o InsertByIndex(Tail(sorted), e)

RECURSIVE SortByIndex(_)
SortByIndex(entries) ==
    IF entries = <<>> THEN <<>>
    ELSE InsertByIndex(SortByIndex(Tail(entries)), Head(entries))

ObjectEntries(obj) ==
    SortByIndex(SelectSeq(obj, LAMBDA e : IsIndexKey(e.k)))
        \o SelectSeq(obj, LAMBDA e : ~IsIndexKey(e.k))

\* k * log2(k) * SCALE for k = 1..24, rounded to the nearest integer.
SCALE == 10000
KLog2K ==
    <<0, 20000, 47549, 80000, 116096, 155098, 196515, 240000,
      285293, 332193, 380537, 430196, 481057, 533030, 586034, 640000,
      694869, 750587, 807106, 864386, 922387, 981075, 1040419, 1100391>>

\* getEntropy(subset) * subset.length * SCALE:
\*   -sum_c p_c log2 p_c  with p_c = count_c / n
\*   = (n log2 n - sum_c count_c log2 count_c) / n.
getEntropy(subset, tgt) ==
    LET counts == getDistribution(subset, tgt) IN
    IF subset = <<>> THEN 0
    ELSE KLog2K[Len(subset)] - SumSeq([i \in DOMAIN counts |-> KLog2K[counts[i].v]])

\* Mutant of ReduceMajority: on equal counts the earlier entry is kept.
RECURSIVE ReduceMajorityKeepFirst(_, _)
ReduceMajorityKeepFirst(a, rest) ==
    IF rest = <<>> THEN a
    ELSE ReduceMajorityKeepFirst(IF a.v >= Head(rest).v THEN a ELSE Head(rest),
                                 Tail(rest))

\* Object.entries(counts).reduce((a, b) => a[1] > b[1] ? a : b)[0]
RECURSIVE ReduceMajority(_, _)
ReduceMajority(a, rest) ==
    IF rest = <<>> THEN a
    ELSE ReduceMajority(IF a.v > Head(rest).v THEN a ELSE Head(rest), Tail(rest))

\* Mutant of getMajorityClass: the first class enumerated, whatever its count.
getMajorityClassFirst(subset, tgt) ==
    ObjectEntries(getDistribution(subset, tgt))[1].k

getMajorityClass(subset, tgt) ==
    LET entries == ObjectEntries(getDistribution(subset, tgt)) IN
    ReduceMajority(Head(entries), Tail(entries)).k

----------------------------------------------------------------------------
(* findBestSplit *)

\* Mutant of MinLeafSize: a floor of 2 rows.
MinLeafSizeTwo == 5 - 3

MinLeafSize == 5        \* left.length < 5 || right.length < 5
StepCount == 20         \* Math.min(20, max - min)
NegInfinity == -10000000

NumThreshold(p, q) == [t |-> "num", p |-> p, q |-> q]
StrThreshold(x) == [t |-> "str", s |-> x]

\* Object.keys(obj)
ObjectKeys(obj) == [i \in DOMAIN obj |-> obj[i].k]

IdColumn == <<"i", "d">>
LoanIdColumn == <<"l", "o", "a", "n", "_", "i", "d">>

\* Mutant of CandidateFeatures: the identifier columns are kept.
CandidateFeaturesWithIds(subset, tgt) ==
    SelectSeq(ObjectKeys(subset[1]), LAMBDA f : f # tgt)

\* Object.keys(subset[0]).filter(f => f !== target && f !== 'id' && f !== 'loan_id')
CandidateFeatures(subset, tgt) ==
    SelectSeq(ObjectKeys(subset[1]),
              LAMBDA f : f # tgt /\ f # IdColumn /\ f # LoanIdColumn)

\* The (min, max) pairs of the cell values in use for which the sum
\* min + step + ... + step of steps terms, accumulated in IEEE-754 doubles,
\* is still below max: 3 + 1.9 + ... + 1.9 (20 terms) is 40.999999999999986,
\* whereas 1 + 2 + ... + 2 is 41 and 4 + 1.85 + ... + 1.85 is above 41.
AccumulatesBelowMax == {<<3, 41>>}

\* A rounding error is modelled as 1 / (steps * RoundingScale), which is
\* smaller than every distance between two thresholds or two cell values.
RoundingScale == 1000

\* Mutant of NumericThresholds: the loop runs while threshold <= max.
NumericThresholdsToMax(min, max) ==
    LET steps == Min2(StepCount, max - min) IN
    IF max = min THEN <<>>
    ELSE [k \in 1..steps |-> NumThreshold(min * steps + k * (max - min), steps)]

\* Mutant of NumericThresholds: the loop starts at threshold = min.
NumericThresholdsFromMin(min, max) ==
    LET steps == Min2(StepCount, max - min) IN
    IF max = min THEN <<>>
    ELSE [k \in 1..steps |->
            NumThreshold(min * steps + (k - 1) * (max - min), steps)]

\* The thresholds of the loop
\*   for (threshold = min + step; threshold < max; threshold += step)
\* with steps = Math.min(20, max - min) and step = (max - min) / steps, for
\* integer cell values, as rationals: threshold_k = min + k * step =
\* (min * steps + k * (max - min)) / steps, and threshold_k < max iff
\* k < steps, unless the accumulated sum of steps terms has stayed below
\* max, in which case the body runs once more with a threshold just below
\* max.  For max = min the step is 0 / 0 = NaN and the loop body never runs.
NumericThresholds(min, max) ==
    LET steps == Min2(StepCount, max - min)
        interior == [k \in 1..(steps - 1) |->
                        NumThreshold(min * steps + k * (max - min), steps)]
    IN  IF max = min THEN <<>>
        ELSE IF <<min, max>> \in AccumulatesBelowMax
             THEN Append(interior,
                         NumThreshold(max * steps * RoundingScale - 1,
                                      steps * RoundingScale))
             ELSE interior

\* new Set(values.map(String)), in first-seen order
RECURSIVE Distinct(_, _)
Distinct(seq, seen) ==
    IF seq = <<>> THEN seen
    ELSE Distinct(Tail(seq),
                  IF Head(seq) \in Range(seen) THEN seen ELSE Append(seen, Head(seq)))

\* The rows a candidate sends left and right (lines 847-848, 868-869).
LeftOf(subset, feature, threshold) ==
    IF threshold.t = "num"
    THEN SelectSeq(subset, LAMBDA row :
            LeqRational(Number(Get(row, feature)), threshold.p, threshold.q))
    ELSE SelectSeq(subset, LAMBDA row : String(Get(row, feature)) = threshold.s)

RightOf(subset, feature, threshold) ==
    IF threshold.t = "num"
    THEN SelectSeq(subset, LAMBDA row :
            GtRational(Number(Get(row, feature)), threshold.p, threshold.q))
    ELSE SelectSeq(subset, LAMBDA row : String(Get(row, feature)) # threshold.s)

\* (entropyBefore - entropyAfter) * subset.length * SCALE
GainOf(subset, left, right, tgt) ==
    getEntropy(subset, tgt) - (getEntropy(left, tgt) + getEntropy(right, tgt))

\* Mutant of TryCandidate: no floor on the sizes of the two parts.
TryCandidateNoFloor(subset, tgt, feature, threshold, best) ==
    LET left == LeftOf(subset, feature, threshold)
        right == RightOf(subset, feature, threshold)
        gain == GainOf(subset, left, right, tgt)
    IN  IF gain > best.gain
        THEN [feature |-> feature, threshold |-> threshold, gain |-> gain,
              isNumeric |-> (threshold.t = "num")]
        ELSE best

\* Mutant of TryCandidate: a candidate of equal gain replaces the best.
TryCandidateLast(subset, tgt, feature, threshold, best) ==
    LET left == LeftOf(subset, feature, threshold)
        right == RightOf(subset, feature, threshold)
        gain == GainOf(subset, left, right, tgt)
    IN  IF Len(left) < MinLeafSize \/ Len(right) < MinLeafSize THEN best
        ELSE IF gain >= best.gain
             THEN [feature |-> feature, threshold |-> threshold, gain |-> gain,
                   isNumeric |-> (threshold.t = "num")]
             ELSE best

\* One iteration of a threshold loop or of the category loop.  (In the two
\* scans below the test on best.gain never holds: it makes the best split
\* so far a value before the following iteration.)
TryCandidate(subset, tgt, feature, threshold, best) ==
    LET left == LeftOf(subset, feature, threshold)
        right == RightOf(subset, feature, threshold)
        gain == GainOf(subset, left, right, tgt)
    IN  IF Len(left) < MinLeafSize \/ Len(right) < MinLeafSize THEN best
        ELSE IF gain > best.gain
             THEN [feature |-> feature, threshold |-> threshold, gain |-> gain,
                   isNumeric |-> (threshold.t = "num")]
             ELSE best

RECURSIVE ScanThresholds(_, _, _, _, _)
ScanThresholds(subset, tgt, feature, thresholds, best) ==
    IF thresholds = <<>> \/ best.gain < NegInfinity THEN best
    ELSE ScanThresholds(subset, tgt, feature, Tail(thresholds),
                        TryCandidate(subset, tgt, feature, Head(thresholds), best))

\* The candidates of one feature, in the order the loops visit them.
CandidatesOf(subset, feature) ==
    LET values == [i \in DOMAIN subset |-> Get(subset[i], feature)] IN
    IF \A i \in DOMAIN values : IsNumber(values[i])
    THEN NumericThresholds(SetMin({values[i].n : i \in DOMAIN values}),
                           SetMax({values[i].n : i \in DOMAIN values}))
    ELSE LET categories == Distinct([i \in DOMAIN values |-> String(values[i])], <<>>)
         IN  [i \in DOMAIN categories |-> StrThreshold(categories[i])]

RECURSIVE ScanFeatures(_, _, _, _)
ScanFeatures(subset, tgt, features, best) ==
    IF features = <<>> \/ best.gain < NegInfinity THEN best
    ELSE ScanFeatures(subset, tgt, Tail(features),
                      ScanThresholds(subset, tgt, Head(features),
                                     CandidatesOf(subset, Head(features)), best))

findBestSplit(subset, tgt) ==
    ScanFeatures(subset, tgt, CandidateFeatures(subset, tgt),
                 [feature |-> <<>>, threshold |-> NumThreshold(0, 1),
                  gain |-> NegInfinity, isNumeric |-> TRUE])

----------------------------------------------------------------------------
(* buildDecisionTree *)

Null == [kind |-> "null"]
GainFloorPercent == 1   \* split.gain <= 0.01

\* The leaf object of lines 912-919 and 945-952.
LeafOf(subset, tgt) ==
    LET majorityClass == getMajorityClass(subset, tgt) IN
    [kind |-> "leaf",
     name |-> majorityClass,
     confidence |->
        [num |-> Len(SelectSeq(subset,
                    LAMBDA row : String(Get(row, tgt)) = majorityClass)),
         den |-> Len(subset)],
     samples |-> Len(subset),
     distribution |-> getDistribution(subset, tgt)]

\* Mutant of AtGainFloor: a floor of 0 in place of 0.01.
AtGainFloorZero(split, n) == split.gain <= 0

\* split.gain <= 0.01, the gain being split.gain / (n * SCALE)
AtGainFloor(split, n) == 100 * split.gain <= GainFloorPercent * n * SCALE

\* Mutant of StopsEarly: the row floor off by one (data.length < 4).
StopsEarlyOffByOne(subset, depth) == depth = 0 \/ Len(subset) < MinLeafSize - 1

\* Mutant of StopsEarly: the depth test is passed one level later.
StopsEarlyBelowZero(subset, depth) == depth = -1 \/ Len(subset) < MinLeafSize

\* maxDepth === 0 || data.length < 5
StopsEarly(subset, depth) == depth = 0 \/ Len(subset) < MinLeafSize

\* Mutant of SplitLeft: the numeric rule with < in place of <=.
SplitLeftStrict(subset, split) ==
    IF split.isNumeric
    THEN SelectSeq(subset, LAMBDA row :
            LET a == Number(Get(row, split.feature)) IN
            ~a.nan /\ a.v * split.threshold.q < split.threshold.p)
    ELSE SelectSeq(subset, LAMBDA row :
            String(Get(row, split.feature)) = split.threshold.s)

\* The two parts of lines 927-936: split.isNumeric chooses the rule.
SplitLeft(subset, split) ==
    IF split.isNumeric
    THEN SelectSeq(subset, LAMBDA row :
            LeqRational(Number(Get(row, split.feature)),
                        split.threshold.p, split.threshold.q))
    ELSE SelectSeq(subset, LAMBDA row :
            String(Get(row, split.feature)) = split.threshold.s)

SplitRight(subset, split) ==
    IF split.isNumeric
    THEN SelectSeq(subset, LAMBDA row :
            GtRational(Number(Get(row, split.feature)),
                       split.threshold.p, split.threshold.q))
    ELSE SelectSeq(subset, LAMBDA row :
            String(Get(row, split.feature)) # split.threshold.s)

\* Mutant of StoredThreshold: the node keeps the text of line 928,
\* Number(split.threshold).toFixed(1), for a numeric split.
StoredThresholdFixed(split) ==
    IF split.isNumeric
    THEN StrThreshold(ToString(split.threshold.p \div split.threshold.q))
    ELSE split.threshold

\* threshold: split.threshold (line 960)
StoredThreshold(split) == split.threshold

RECURSIVE buildDecisionTree(_, _, _)
buildDecisionTree(subset, tgt, depth) ==
    IF StopsEarly(subset, depth) THEN Null
    ELSE
      LET split == findBestSplit(subset, tgt) IN
      IF AtGainFloor(split, Len(subset)) THEN LeafOf(subset, tgt)
      ELSE
        LET formattedFeature == formatFeatureName(split.feature)
            left == SplitLeft(subset, split)
            right == SplitRight(subset, split)
            leftChild == buildDecisionTree(left, tgt, depth - 1)
            rightChild == buildDecisionTree(right, tgt, depth - 1)
        IN  IF leftChild = Null \/ rightChild = Null THEN LeafOf(subset, tgt)
            ELSE [kind |-> "node",
                  name |-> formattedFeature,
                  confidence |-> [num |-> split.gain, den |-> Len(subset) * SCALE],
                  feature |-> formattedFeature,
                  threshold |-> StoredThreshold(split),
                  samples |-> Len(subset),
                  distribution |-> getDistribution(subset, tgt),
                  children |-> <<leftChild, rightChild>>]

\* The calls of findBestSplit that buildDecisionTree(subset, tgt, depth)
\* makes, itself and its recursive calls: for each, the position in the
\* tree of the object the call of buildDecisionTree returns (the child indexes
\* 1 or 2 on the way down from the root), its records, its maxDepth and the
\* split findBestSplit returned.
RECURSIVE SplitCalls(_, _, _, _)
RECURSIVE CallsAfterSplit(_, _, _, _, _)

\* The call at pos, whose findBestSplit returned split, and the calls of
\* the two recursive calls of lines 938-939.
CallsAfterSplit(subset, tgt, depth, pos, split) ==
    {[pos |-> pos, subset |-> subset, depth |-> depth, split |-> split]}
    \cup (IF AtGainFloor(split, Len(subset)) THEN {}
          ELSE SplitCalls(SplitLeft(subset, split), tgt, depth - 1, Append(pos, 1))
               \cup SplitCalls(SplitRight(subset, split), tgt, depth - 1,
                               Append(pos, 2)))

SplitCalls(subset, tgt, depth, pos) ==
    IF StopsEarly(subset, depth) THEN {}
    ELSE CallsAfterSplit(subset, tgt, depth, pos, findBestSplit(subset, tgt))

----------------------------------------------------------------------------
(* Traversals: predictFromTree, highlightDecisionPath, findPathToLeaf *)

Threw == [kind |-> "throw"]

\* The child a decision node sends the input to (lines 779-792):
\*   typeof threshold === 'number'
\*     ? (Number(value) <= threshold ? children[0] : children[1])
\*     : (String(value) === String(threshold) ? children[0] : children[1])
GoesLeft(node, value) ==
    IF node.threshold.t = "num"
    THEN LeqRational(Number(value), node.threshold.p, node.threshold.q)
    ELSE String(value) = node.threshold.s

NextChild(node, value) ==
    IF GoesLeft(node, value) THEN node.children[1] ELSE node.children[2]

\* Mutant of ConfidenceOrZero: the confidence is dropped.
ConfidenceDropped(node) == [num |-> 0, den |-> 1]

\* currentNode.confidence || 0
ConfidenceOrZero(node) ==
    IF node.confidence.num = 0 THEN [num |-> 0, den |-> 1] ELSE node.confidence

RECURSIVE PredictWalk(_, _)
PredictWalk(currentNode, inp) ==
    IF currentNode.kind = "node"
    THEN PredictWalk(NextChild(currentNode, Get(inp, currentNode.feature)), inp)
    ELSE [kind |-> "ok", prediction |-> currentNode.name,
          confidence |-> ConfidenceOrZero(currentNode)]

\* Reading tree.children of a null tree is a TypeError.
predictFromTree(t, inp) == IF t = Null THEN Threw ELSE PredictWalk(t, inp)

\* highlightDecisionPath of src/unnamed/part_000: the path it hands to
\* setSelectedPath, as the sequence of the tree nodes visited.
RECURSIVE HighlightWalk(_, _, _)
HighlightWalk(currentNode, inp, visited) ==
    IF currentNode.kind # "node" THEN visited
    ELSE IF currentNode.feature = <<>> \/ ~HasKey(inp, currentNode.feature)
         THEN visited
         ELSE LET nextNode == NextChild(currentNode, Get(inp, currentNode.feature))
              IN  HighlightWalk(nextNode, inp, Append(visited, nextNode))

highlightDecisionPath(t, inp, selected) ==
    IF t = Null THEN selected ELSE HighlightWalk(t, inp, <<t>>)

\* highlightDecisionPath of src/src/components/DecisionTree.tsx.
RECURSIVE LegacyWalk(_, _, _)
LegacyWalk(currentNode, inp, visited) ==
    IF currentNode.kind = "node"
    THEN LegacyWalk(NextChild(currentNode, Get(inp, currentNode.feature)), inp,
                    Append(visited, currentNode))
    ELSE Append(visited, currentNode)

legacyHighlightDecisionPath(t, inp) == LegacyWalk(t, inp, <<>>)

\* findPathToLeaf of src/unnamed/part_000.
RECURSIVE FindWalk(_, _, _)
FindWalk(currentNode, inp, visited) ==
    IF currentNode.kind # "node" THEN visited
    ELSE IF currentNode.feature = <<>> THEN visited
    ELSE IF Get(inp, currentNode.feature) = Undefined THEN visited
    ELSE LET nextNode == NextChild(currentNode, Get(inp, currentNode.feature))
         IN  FindWalk(nextNode, inp, Append(visited, nextNode))

findPathToLeaf(startNode, inp) == FindWalk(startNode, inp, <<startNode>>)

\* A node of the d3 hierarchy is named by its position: the child indexes
\* (1 or 2) on the way down from the root.
RECURSIVE Positions(_)
Positions(t) ==
    IF t.kind = "node"
    THEN {<<>>} \cup {<<1>> \o pos : pos \in Positions(t.children[1])}
                \cup {<<2>> \o pos : pos \in Positions(t.children[2])}
    ELSE {<<>>}

RECURSIVE NodeAt(_, _)
NodeAt(t, pos) ==
    IF pos = <<>> THEN t ELSE NodeAt(t.children[Head(pos)], Tail(pos))

\* while (current) { path.unshift(current); current = current.parent }
getPathToRoot(t, pos) == [k \in 1..(Len(pos) + 1) |-> NodeAt(t, SubSeq(pos, 1, k - 1))]

\* The selected path after a click on the node at pos (part_000, lines
\* 506-545): the ancestors of the node and, for a decision node and a
\* non-empty input, the rest of what findPathToLeaf returns.
ClickedPath(t, pos, inp) ==
    LET d == NodeAt(t, pos)
        ancestors == getPathToRoot(t, pos)
    IN  IF d.kind = "node" /\ d.feature # <<>> /\ inp # <<>>
        THEN ancestors \o Tail(findPathToLeaf(d, inp))
        ELSE ancestors

----------------------------------------------------------------------------
(* calculateFeatureImportance *)

RECURSIVE Pow(_, _)
Pow(b, e) == IF e = 0 THEN 1 ELSE b * Pow(b, e - 1)

\* The depth of the deepest node below t (0 for a leaf).
RECURSIVE Height(_)
Height(t) ==
    IF t.kind = "node"
    THEN 1 + (IF Height(t.children[1]) >= Height(t.children[2])
              THEN Height(t.children[1]) ELSE Height(t.children[2]))
    ELSE 0

\* (node.samples || 1) * (node.confidence || 0.5), in units of 1 / SCALE.
\* A node's confidence is num / den with den a multiple of SCALE.
SampleWeight(node) ==
    LET samples == IF node.samples = 0 THEN 1 ELSE node.samples IN
    IF node.confidence.num = 0 THEN (samples * SCALE) \div 2
    ELSE (samples * node.confidence.num) \div (node.confidence.den \div SCALE)

\* Mutant of NodeImportance: no decay with the depth.
NodeImportanceFlat(node, depth, top) == SampleWeight(node) * Pow(10, top)

\* nodeImportance = (samples / 100) * Math.pow(0.9, depth) * confidence, in
\* units of 1 / (100 * SCALE * 10^top): 0.9^depth = 9^depth * 10^(top-depth)
\* / 10^top, top being the height of the whole tree.
NodeImportance(node, depth, top) ==
    SampleWeight(node) * Pow(9, depth) * Pow(10, top - depth)

\* Mutant of AddTo: the amount overwrites the entry instead of adding to it.
AddToOverwrite(map, key, amount) ==
    IF HasKey(map, key)
    THEN [i \in DOMAIN map |->
            IF map[i].k = key THEN [k |-> key, v |-> amount] ELSE map[i]]
    ELSE Append(map, [k |-> key, v |-> amount])

\* importanceMap[key] = (importanceMap[key] || 0) + amount
AddTo(map, key, amount) ==
    IF HasKey(map, key)
    THEN [i \in DOMAIN map |->
            IF map[i].k = key THEN [k |-> key, v |-> map[i].v + amount]
            ELSE map[i]]
    ELSE Append(map, [k |-> key, v |-> amount])

\* traverse(node, depth): acc is [map, total], the two accumulators.
RECURSIVE Traverse(_, _, _, _)
Traverse(node, depth, top, acc) ==
    IF node.kind = "node"
    THEN LET own == IF node.feature # <<>>
                    THEN [map |-> AddTo(acc.map, node.feature,
                                        NodeImportance(node, depth, top)),
                          total |-> acc.total + NodeImportance(node, depth, top)]
                    ELSE acc
             afterLeft == Traverse(node.children[1], depth + 1, top, own)
         IN  Traverse(node.children[2], depth + 1, top, afterLeft)
    ELSE acc

\* Mutant of InsertDescending: an entry goes before the entries equal to it.
RECURSIVE InsertDescendingUnstable(_, _)
InsertDescendingUnstable(sorted, e) ==
    IF sorted = <<>> THEN <<e>>
    ELSE IF e.importance.num >= Head(sorted).importance.num
         THEN <<e>> \o sorted
         ELSE <<Head(sorted)>> \o InsertDescendingUnstable(Tail(sorted), e)

\* entries.sort((a, b) => b.importance - a.importance): stable, descending.
\* All importances share the denominator, so the numerators are compared.
RECURSIVE InsertDescending(_, _)
InsertDescending(sorted, e) ==
    IF sorted = <<>> THEN <<e>>
    ELSE IF e.importance.num > Head(sorted).importance.num
         THEN <<e>> \o sorted
         ELSE <<Head(sorted)>> \o InsertDescending(Tail(sorted), e)

RECURSIVE SortDescending(_, _)
SortDescending(entries, sorted) ==
    IF entries = <<>> THEN sorted
    ELSE SortDescending(Tail(entries), InsertDescending(sorted, Head(entries)))

calculateFeatureImportance(t) ==
    IF t = Null THEN <<>>
    ELSE LET acc == Traverse(t, 0, Height(t), [map |-> <<>>, total |-> 0])
             entries == ObjectEntries(acc.map)
             normalized ==
                [i \in DOMAIN entries |->
                    [feature |-> entries[i].k,
                     importance |->
                        IF acc.total > 0
                        THEN [num |-> entries[i].v, den |-> acc.total]
                        ELSE [num |-> entries[i].v, den |-> 1]]]
         IN  SortDescending(normalized, <<>>)

----------------------------------------------------------------------------
(* The datasets and inputs the model is run on *)

MaxGroups == 3       \* a dataset is made of at most this many groups of rows
MaxDepthArg == 3     \* buildDecisionTree is called with maxDepth in 0..MaxDepthArg

\* The numeric cell of the rows of the i-th group, in the two layouts.
XValues == <<1, 3, 4, 6>>
WideXValues == <<3, 41, 4, 1>>

\* A layout names the columns in their order, the two class labels and the
\* numeric cells of its groups.
LowerLayout ==
    [numeric |-> <<"x">>, categorical |-> <<"s", "e", "x">>, numericFirst |-> TRUE,
     labels |-> <<Str("a"), Str("b")>>, xs |-> XValues]
UpperLayout ==
    [numeric |-> <<"X">>, categorical |-> <<"S", "e", "x">>, numericFirst |-> FALSE,
     labels |-> <<Num(1), Num(0)>>, xs |-> WideXValues]
Layouts == {LowerLayout, UpperLayout}

TargetColumn == <<"y">>
AbsentColumn == <<"z">>

\* A group is `size` rows that agree on both features; its first `first`
\* rows carry the first label of the layout, the others the second.
GroupKinds ==
    {[size |-> 5, first |-> f, sex |-> g] : f \in {0, 5}, g \in {"m", "f"}}
    \cup {[size |-> 5, first |-> 2, sex |-> "f"],
          [size |-> 6, first |-> 3, sex |-> "m"],
          [size |-> 4, first |-> 0, sex |-> "f"]}

RowOf(layout, xval, sexval, label) ==
    IF layout.numericFirst
    THEN <<[k |-> layout.numeric, v |-> Num(xval)],
           [k |-> layout.categorical, v |-> Str(sexval)],
           [k |-> TargetColumn, v |-> label]>>
    ELSE <<[k |-> layout.categorical, v |-> Str(sexval)],
           [k |-> layout.numeric, v |-> Num(xval)],
           [k |-> TargetColumn, v |-> label]>>

GroupRows(layout, i, kind) ==
    [j \in 1..kind.size |->
        RowOf(layout, layout.xs[i], kind.sex,
              IF j <= kind.first THEN layout.labels[1] ELSE layout.labels[2])]

RECURSIVE Concat(_)
Concat(seqs) == IF seqs = <<>> THEN <<>> ELSE Head(seqs) \o Concat(Tail(seqs))

DatasetOf(layout, kinds) ==
    Concat([i \in DOMAIN kinds |-> GroupRows(layout, i, kinds[i])])

\* The groups of the datasets that carry identifier columns.
IdGroupKinds == {[size |-> 5, first |-> f, sex |-> "m"] : f \in {0, 5}}

\* The records with an id column in front and a loan_id column behind, both
\* holding the row number.
WithIds(records) ==
    [i \in DOMAIN records |->
        <<[k |-> IdColumn, v |-> Num(i)]>> \o records[i]
            \o <<[k |-> LoanIdColumn, v |-> Num(i)]>>]

\* Twenty records of four classes over three categorical columns s, x, w:
\* s separates two halves, and each half is separated by one of the two
\* other columns: the first half by x and the second by w ("split"), the
\* first by w and the second by x ("swapped"), or both by x ("shared").
SymmetricKinds == {"split", "swapped", "shared"}

SymmetricRecords(kind) ==
    LET row(s, x, w, y) ==
            <<[k |-> <<"s">>, v |-> Str(s)],
              [k |-> <<"x">>, v |-> Str(IF kind = "swapped" THEN w ELSE x)],
              [k |-> <<"w">>, v |-> Str(IF kind = "swapped" THEN x ELSE w)],
              [k |-> TargetColumn, v |-> Str(y)]>>
    IN  [i \in 1..20 |->
            CASE i <= 5  -> row("m", "p", "r", "a")
              [] i <= 10 -> row("m", "q", "r", "b")
              [] i <= 15 -> IF kind = "shared" THEN row("f", "p", "r", "c")
                            ELSE row("f", "r", "p", "c")
              [] OTHER   -> IF kind = "shared" THEN row("f", "q", "r", "d")
                            ELSE row("f", "r", "q", "d")]

\* The records of the concrete scenario: x = 1, 2, 8, 9, 10 and y = a, a, b, b, b.
ScenarioRecords ==
    LET xs == <<1, 2, 8, 9, 10>>
        ys == <<"a", "a", "b", "b", "b">>
    IN  [i \in 1..5 |-> <<[k |-> <<"x">>, v |-> Num(xs[i])],
                          [k |-> <<"y">>, v |-> Str(ys[i])]>>]

\* The same object keyed by the formatted feature names.
Rekeyed(obj) == [i \in DOMAIN obj |-> [k |-> formatFeatureName(obj[i].k), v |-> obj[i].v]]

\* obj without its first entry.
DropFirst(obj) == Tail(obj)

\* The inputs tried on a dataset: every record as it is, every record keyed
\* by the names the tree stores, and records that lack a feature.
InputsOf(records) ==
    Range(records)
    \cup {Rekeyed(r) : r \in Range(records)}
    \cup {DropFirst(Rekeyed(records[i])) : i \in DOMAIN records \cap {1}}
    \cup {<<>>}

----------------------------------------------------------------------------
(* The state machine *)

NotBuilt == [kind |-> "none"]
NoResult == [kind |-> "none"]
NoCall == [pc |-> "none"]
NoEvent == [kind |-> "none"]

\* No component is mounted and loadDataset is not running.
Unmounted ==
    /\ loader = NoCall
    /\ component = "none"
    /\ dataset = ""
    /\ runs = <<>>
    /\ loading = TRUE
    /\ error = Null
    /\ formFeatures = <<>>
    /\ event = NoEvent

Init ==
    /\ \/ \E layout \in Layouts :
            \E n \in 0..(IF layout.numericFirst THEN MaxGroups ELSE MaxGroups - 1) :
            \E kinds \in [1..n -> GroupKinds] :
                /\ data = DatasetOf(layout, kinds)
                /\ target = TargetColumn
       \/ \E n \in 0..MaxGroups :
            /\ data = DatasetOf(LowerLayout,
                        [i \in 1..n |-> [size |-> 5, first |-> 2, sex |-> "m"]])
            /\ target = AbsentColumn
       \/ \E n \in 1..(MaxGroups - 1) :
            \E kinds \in [1..n -> IdGroupKinds] :
                /\ data = WithIds(DatasetOf(LowerLayout, kinds))
                /\ target = TargetColumn
       \/ /\ data = ScenarioRecords
          /\ target = TargetColumn
       \/ \E kind \in SymmetricKinds :
             /\ data = SymmetricRecords(kind)
             /\ target = TargetColumn
    /\ maxDepth \in 0..MaxDepthArg
    /\ pc = "start"
    /\ tree = NotBuilt
    /\ input = <<>>
    /\ result = NoResult
    /\ path = <<>>
    /\ legacyPath = <<>>
    /\ importance = <<>>
    /\ clicked = <<>>
    /\ remaining = <<>>
    /\ calls = {}
    /\ Unmounted

\* const tree = buildDecisionTree(data, targetColumn, maxDepth)
Build ==
    /\ pc = "start"
    /\ tree' = buildDecisionTree(data, target, maxDepth)
    /\ pc' = "built"
    /\ UNCHANGED <<data, target, maxDepth, input, result, path, legacyPath, importance,
                   clicked, remaining, calls>>
    /\ UNCHANGED appVars

\* const importance = calculateFeatureImportance(tree)
Importance ==
    /\ pc = "built"
    /\ importance' = calculateFeatureImportance(tree)
    /\ pc' = "ranked"
    /\ UNCHANGED <<data, target, maxDepth, tree, input, result, path, legacyPath,
                   clicked, remaining, calls>>
    /\ UNCHANGED appVars

\* const result = predictFromTree(tree, input)
Predict ==
    /\ pc = "ranked"
    /\ \E inp \in InputsOf(data) :
        /\ input' = inp
        /\ result' = predictFromTree(tree, inp)
    /\ pc' = "predicted"
    /\ UNCHANGED <<data, target, maxDepth, tree, path, legacyPath, importance,
                   clicked, remaining, calls>>
    /\ UNCHANGED appVars

\* highlightDecisionPath(treeData, input), both versions of the component;
\* handleFeatureChange calls it only when treeData is not null.
Highlight ==
    /\ pc = "predicted"
    /\ tree # Null
    /\ path' = highlightDecisionPath(tree, input, path)
    /\ legacyPath' = legacyHighlightDecisionPath(tree, input)
    /\ pc' = "highlighted"
    /\ UNCHANGED <<data, target, maxDepth, tree, input, result, importance,
                   clicked, remaining, calls>>
    /\ UNCHANGED appVars

Next == Build \/ Importance \/ Predict \/ Highlight

Spec == Init /\ [][Next]_vars

\* The click handler of a tree node (part_000, lines 506-545), with the
\* input the form holds.
ClickNode ==
    /\ pc = "highlighted"
    /\ \E pos \in Positions(tree) :
        /\ clicked' = pos
        /\ remaining' =
              IF NodeAt(tree, pos).kind = "node" /\ NodeAt(tree, pos).feature # <<>>
                 /\ input # <<>>
              THEN findPathToLeaf(NodeAt(tree, pos), input)
              ELSE <<>>
        /\ path' = ClickedPath(tree, pos, input)
    /\ pc' = "clicked"
    /\ UNCHANGED <<data, target, maxDepth, tree, input, result, legacyPath, importance,
                   calls>>
    /\ UNCHANGED appVars

\* The datasets of the runs with clicks: groups of one label each.
PureGroupKinds == {kind \in GroupKinds : kind.size = 5 /\ kind.first \in {0, 5}}

ClickInit ==
    /\ \E layout \in Layouts :
         \E n \in 0..(IF layout.numericFirst THEN MaxGroups ELSE MaxGroups - 1) :
         \E kinds \in [1..n -> PureGroupKinds] :
            data = DatasetOf(layout, kinds)
    /\ target = TargetColumn
    /\ maxDepth \in 0..MaxDepthArg
    /\ pc = "start"
    /\ tree = NotBuilt
    /\ input = <<>>
    /\ result = NoResult
    /\ path = <<>>
    /\ legacyPath = <<>>
    /\ importance = <<>>
    /\ clicked = <<>>
    /\ remaining = <<>>
    /\ calls = {}
    /\ Unmounted

ClickNext == Build \/ Importance \/ Predict \/ Highlight \/ ClickNode

ClickSpec == ClickInit /\ [][ClickNext]_vars

\* const tree = buildDecisionTree(data, targetColumn, maxDepth), with the
\* calls of findBestSplit it makes on the way.
TracedBuild ==
    /\ pc = "start"
    /\ tree' = buildDecisionTree(data, target, maxDepth)
    /\ calls' = SplitCalls(data, target, maxDepth, <<>>)
    /\ pc' = "built"
    /\ UNCHANGED <<data, target, maxDepth, input, result, path, legacyPath, importance,
                   clicked, remaining>>
    /\ UNCHANGED appVars

BuildNext == TracedBuild

BuildSpec == Init /\ [][BuildNext]_vars

----------------------------------------------------------------------------
(* loadDataset (utils/dataLoader) *)

DatasetNames == {"Adult Income", "Heart Disease", "Loan Approval"}

\* A name the switch of lines 668-680 has no case for.
UnknownName == "Iris"

\* The switch of lines 668-680; "" when the default case throws.
FileOf(datasetName) ==
    CASE datasetName = "Adult Income"  -> "adult_.csv"
      [] datasetName = "Heart Disease" -> "heart.csv"
      [] datasetName = "Loan Approval" -> "loan.csv"
      [] OTHER -> ""

\* possiblePaths (lines 683-688): a path is its prefix and the file name.
possiblePaths(file) ==
    <<<<"/src/data/", file>>,
      <<"/data/", file>>,
      <<"/", file>>,
      <<"https://raw.githubusercontent.com/farazjawedd/XAI_FINAL_PROJ/main/public/data/",
        file>>>>

\* What a fetch of one path can do: answer with a status that is not ok,
\* reject (or fail while the body is read), answer ok with an empty body,
\* or answer ok with a text.  A text is a header line with no record
\* ("header"), a file of records ("rows"), or a file of more records than a
\* function call can take arguments ("oversized").
Responses == {"notOk", "rejects", "empty", "header", "rows", "oversized"}
TextKinds == {"header", "rows", "oversized"}

EmptyText == [kind |-> "empty"]
TextOf(url, response) == [kind |-> response, url |-> url]

\* An Error object, by its message.
Error(message) == [message |-> message]
FetchFailed == Error(<<"Failed to fetch">>)

\* The files behind the three names: ten records each.
AgeColumn == <<"A", "g", "e">>
AdultRecords ==
    [i \in 1..10 |->
        <<[k |-> AgeColumn, v |-> Num(IF i <= 5 THEN 30 ELSE 40)],
          [k |-> <<"i", "n", "c", "o", "m", "e">>,
           v |-> Str(IF i <= 5 THEN "<=50K" ELSE ">50K")]>>]

HeartRecords ==
    [i \in 1..10 |->
        <<[k |-> <<"c", "p">>, v |-> Num(IF i <= 5 THEN 0 ELSE 3)],
          [k |-> <<"t", "a", "r", "g", "e", "t">>, v |-> Num(IF i <= 5 THEN 1 ELSE 0)]>>]

LoanRecords ==
    [i \in 1..10 |->
        <<[k |-> LoanIdColumn, v |-> Num(i)],
          [k |-> <<"e", "d", "u", "c", "a", "t", "i", "o", "n">>,
           v |-> Str(IF i <= 5 THEN "Graduate" ELSE "Not Graduate")],
          [k |-> <<"l", "o", "a", "n", "_", "s", "t", "a", "t", "u", "s">>,
           v |-> Str(IF i <= 5 THEN "Y" ELSE "N")]>>]

FileRecords(file) ==
    CASE file = "adult_.csv" -> AdultRecords
      [] file = "heart.csv"  -> HeartRecords
      [] file = "loan.csv"   -> LoanRecords
      [] OTHER -> <<>>

\* Papa.parse(csvText, {header: true, dynamicTyping: true}): the records of
\* the text.  rows are the records; oversized tells that the array is too
\* long to be spread into the arguments of one call.
PapaParse(csvText) ==
    [rows |-> IF csvText.kind = "header" THEN <<>> ELSE FileRecords(csvText.url[2]),
     oversized |-> (csvText.kind = "oversized")]

\* validateDataset(data) of debugHelper.ts: false for null, for what is not
\* an array and for an empty array.
validateDataset(parsed) == parsed.rows # <<>>

\* The frame of loadDataset(datasetName) before its first statement, on a
\* network that answers the i-th path with responses[i].
LoadFrame(datasetName, responses) ==
    [pc |-> "switch", datasetName |-> datasetName, responses |-> responses,
     file |-> "", tried |-> 0, csvText |-> EmptyText, loadError |-> Null,
     fetched |-> <<>>, parsed |-> <<>>, result |-> NoResult]

Returned(value) == [kind |-> "returned", value |-> value]
Thrown(err) == [kind |-> "thrown", error |-> err]

\* The switch on the name (lines 668-680).
SelectFile(l) ==
    IF l.datasetName \in DatasetNames
    THEN [l EXCEPT !.pc = "loop", !.file = FileOf(l.datasetName)]
    ELSE [l EXCEPT !.pc = "done", !.result = Thrown(Error(<<"Invalid dataset">>))]

\* Mutant of FetchNext: a text does not end the loop.
FetchNextNoBreak(l) ==
    LET i == l.tried + 1
        url == possiblePaths(l.file)[i]
        response == l.responses[i]
        after == [l EXCEPT !.tried = i, !.fetched = Append(l.fetched, url),
                           !.pc = IF i = Len(possiblePaths(l.file))
                                  THEN "loaded" ELSE "loop"]
    IN  CASE response = "notOk"   -> after
          [] response = "rejects" -> [after EXCEPT !.loadError = FetchFailed]
          [] response = "empty"   -> [after EXCEPT !.csvText = EmptyText]
          [] OTHER -> [after EXCEPT !.csvText = TextOf(url, response)]

\* One iteration of the loop over possiblePaths (lines 694-711): the fetch
\* of the next path and what follows from its answer.
FetchNext(l) ==
    LET i == l.tried + 1
        url == possiblePaths(l.file)[i]
        response == l.responses[i]
        after == [l EXCEPT !.tried = i, !.fetched = Append(l.fetched, url),
                           !.pc = IF i = Len(possiblePaths(l.file))
                                  THEN "loaded" ELSE "loop"]
    IN  CASE response = "notOk"   -> after
          [] response = "rejects" -> [after EXCEPT !.loadError = FetchFailed]
          [] response = "empty"   -> [after EXCEPT !.csvText = EmptyText]
          [] OTHER -> [after EXCEPT !.csvText = TextOf(url, response),
                                    !.pc = "loaded"]

\* What follows the loop (lines 713-735): the throw when no text was read,
\* the parse, the validation and the return.
ParseAndValidate(l) ==
    IF l.csvText = EmptyText
    THEN [l EXCEPT !.pc = "done",
                   !.result = Thrown(IF l.loadError # Null THEN l.loadError
                                     ELSE Error(<<"Failed to load dataset ",
                                                  l.datasetName, " from any path">>))]
    ELSE LET parsed == PapaParse(l.csvText) IN
         [l EXCEPT !.pc = "done",
                   !.parsed = Append(l.parsed, l.csvText),
                   !.result = IF validateDataset(parsed) THEN Returned(parsed)
                              ELSE Thrown(Error(<<"Invalid dataset: ",
                                                  l.datasetName>>))]

\* The call from its frame l to its end.
RECURSIVE RunLoader(_)
RunLoader(l) ==
    CASE l.pc = "switch" -> RunLoader(SelectFile(l))
      [] l.pc = "loop"   -> RunLoader(FetchNext(l))
      [] l.pc = "loaded" -> RunLoader(ParseAndValidate(l))
      [] OTHER -> l

\* The three steps of a call of loadDataset.
LoaderSelects ==
    /\ loader.pc = "switch"
    /\ loader' = SelectFile(loader)
    /\ UNCHANGED <<data, target, maxDepth, pc, tree, input, result, path, legacyPath,
                   importance, clicked, remaining, calls>>
    /\ UNCHANGED <<component, dataset, runs, loading, error, formFeatures, event>>

LoaderFetches ==
    /\ loader.pc = "loop"
    /\ loader' = FetchNext(loader)
    /\ UNCHANGED <<data, target, maxDepth, pc, tree, input, result, path, legacyPath,
                   importance, clicked, remaining, calls>>
    /\ UNCHANGED <<component, dataset, runs, loading, error, formFeatures, event>>

LoaderParses ==
    /\ loader.pc = "loaded"
    /\ loader' = ParseAndValidate(loader)
    /\ UNCHANGED <<data, target, maxDepth, pc, tree, input, result, path, legacyPath,
                   importance, clicked, remaining, calls>>
    /\ UNCHANGED <<component, dataset, runs, loading, error, formFeatures, event>>

\* A call of loadDataset with any name, on any network.
LoadInit ==
    /\ \E datasetName \in DatasetNames \cup {UnknownName} :
       \E responses \in [1..Len(possiblePaths("")) -> Responses] :
            loader = LoadFrame(datasetName, responses)
    /\ data = <<>>
    /\ target = <<>>
    /\ maxDepth = 0
    /\ pc = "start"
    /\ tree = NotBuilt
    /\ input = <<>>
    /\ result = NoResult
    /\ path = <<>>
    /\ legacyPath = <<>>
    /\ importance = <<>>
    /\ clicked = <<>>
    /\ remaining = <<>>
    /\ calls = {}
    /\ component = "none"
    /\ dataset = ""
    /\ runs = <<>>
    /\ loading = TRUE
    /\ error = Null
    /\ formFeatures = <<>>
    /\ event = NoEvent

LoadNext == LoaderSelects \/ LoaderFetches \/ LoaderParses

LoadSpec == LoadInit /\ [][LoadNext]_vars

----------------------------------------------------------------------------
(* The DecisionTree component: loadData and handleFeatureChange *)

\* The three versions of the component in the sources.
Synchronous == "DecisionTree.tsx"       \* src/src/components/DecisionTree.tsx
Deferred == "part_000, lines 1-870"     \* builds the tree in a setTimeout
Earliest == "part_000, lines 871-1393"  \* keeps the input in features
Components == {Synchronous, Deferred, Earliest}

MaxRuns == 2            \* loadData runs at most this many times
DefaultMaxDepth == 4    \* buildDecisionTree(data, target, maxDepth = 4)

IncomeColumn == <<"i", "n", "c", "o", "m", "e">>

\* getTargetColumn(dataset)
getTargetColumn(name) ==
    CASE name = "Adult Income"  -> IncomeColumn
      [] name = "Heart Disease" -> <<"t", "a", "r", "g", "e", "t">>
      [] name = "Loan Approval" -> <<"l", "o", "a", "n", "_", "s", "t", "a", "t", "u", "s">>
      [] OTHER -> IncomeColumn

\* What `await loadDataset(name)` can settle with, on any network.
LoadResults ==
    {[name |-> name,
      result |-> RunLoader(LoadFrame(name, responses)).result] :
        name \in DatasetNames,
        responses \in [1..Len(possiblePaths("")) -> Responses]}

\* excludeColumns of extractFeatureInputs
ExcludeColumns(version, name) ==
    IF version = Earliest
    THEN {IdColumn, LoanIdColumn, getTargetColumn(name)}
    ELSE CASE name = "Heart Disease" -> {<<"t", "a", "r", "g", "e", "t">>}
           [] name = "Loan Approval" ->
                {LoanIdColumn, <<"l", "o", "a", "n", "_", "s", "t", "a", "t", "u", "s">>}
           [] OTHER -> {<<"f", "n", "l", "w", "g", "t">>, IncomeColumn,
                        <<"e", "d", "u", "c", "a", "t", "i", "o", "n", "a", "l", "-",
                          "n", "u", "m">>}

\* Math.round(d3.mean(values) || 0) for values that are not negative.
RoundedMean(values) == (2 * SumSeq(values) + Len(values)) \div (2 * Len(values))

\* The test that makes a column a numeric feature: every value converts to
\* a number and is not '' (DecisionTree.tsx, line 130), or the value of the
\* first record is a number (part_000, line 959).
IsNumericColumn(version, rows, key) ==
    IF version = Earliest THEN IsNumber(Get(rows[1], key))
    ELSE \A i \in DOMAIN rows :
            /\ ~Number(Get(rows[i], key)).nan
            /\ Get(rows[i], key) # Str("")

\* The element extractFeatureInputs pushes for one column.
FeatureInputOf(version, rows, key) ==
    IF IsNumericColumn(version, rows, key)
    THEN LET values == [i \in DOMAIN rows |-> Number(Get(rows[i], key)).v] IN
         [name |-> key, value |-> Num(RoundedMean(values)), type |-> "numeric",
          min |-> SetMin(Range(values)), max |-> SetMax(Range(values))]
    ELSE LET uniqueValues ==
                Distinct([i \in DOMAIN rows |-> String(Get(rows[i], key))], <<>>)
         IN  [name |-> key, value |-> Str(uniqueValues[1]), type |-> "categorical",
              options |-> uniqueValues]

\* extractFeatureInputs(data), in the run of loadData for the dataset name
extractFeatureInputs(version, name, rows) ==
    LET kept == SelectSeq(ObjectEntries(rows[1]),
                          LAMBDA e : e.k \notin ExcludeColumns(version, name))
    IN  [i \in DOMAIN kept |-> FeatureInputOf(version, rows, kept[i].k)]

\* Object.fromEntries(features.map(f => [f.name, f.value]))
InputOf(featureInputs) ==
    [i \in DOMAIN featureInputs |->
        [k |-> featureInputs[i].name, v |-> featureInputs[i].value]]

\* { ...obj, [key]: value }
Assign(obj, key, value) ==
    IF HasKey(obj, key)
    THEN [i \in DOMAIN obj |-> IF obj[i].k = key THEN [k |-> key, v |-> value]
                               ELSE obj[i]]
    ELSE Append(obj, [k |-> key, v |-> value])

\* prev.map(f => f.name === name ? { ...f, value } : f)
WithValue(featureInputs, name, value) ==
    [i \in DOMAIN featureInputs |->
        IF featureInputs[i].name = name
        THEN [featureInputs[i] EXCEPT !.value = value]
        ELSE featureInputs[i]]

\* What a run of loadData for the dataset name computes from the records
\* rows that loadDataset returned: buildDecisionTree(data, targetColumn),
\* extractFeatureInputs(data), the default input and
\* calculateFeatureImportance(tree).
Computed(version, name, rows) ==
    [version |-> version,
     name |-> name,
     tree |-> buildDecisionTree(rows, getTargetColumn(name), DefaultMaxDepth),
     featureInputs |-> extractFeatureInputs(version, name, rows),
     defaultInputData |-> InputOf(extractFeatureInputs(version, name, rows)),
     importance |-> calculateFeatureImportance(
                        buildDecisionTree(rows, getTargetColumn(name),
                                          DefaultMaxDepth))]

\* The same for the records of the three files, computed once: the records
\* a run gets are those of the file of its dataset.
FileViews ==
    {Computed(version, name, FileRecords(FileOf(name))) :
        version \in Components, name \in DatasetNames}

ViewOf(version, name) ==
    CHOOSE view \in FileViews : view.version = version /\ view.name = name

\* On an oversized array Math.min(...numericValues) (line 841) is called
\* with more arguments than a call can take, and throws a RangeError.
RangeError == Error(<<"Maximum call stack size exceeded">>)

\* The state a run of loadData starts from.
Fetching(name) == [dataset |-> name, stage |-> "fetching", parsed |-> Null,
                   failed |-> FALSE]

\* What never changes while the component is mounted.
outside == <<data, target, maxDepth, pc, legacyPath, clicked, remaining, calls,
             loader, component>>

\* The component after its first render and the effect that calls loadData,
\* up to `await loadDataset(dataset)`.
AppInit ==
    /\ component \in Components
    /\ dataset \in DatasetNames
    /\ runs = <<Fetching(dataset)>>
    /\ loading = TRUE
    /\ error = Null
    /\ formFeatures = <<>>
    /\ event = [kind |-> "started", run |-> 1]
    /\ tree = Null
    /\ input = <<>>
    /\ result = NoResult
    /\ path = <<>>
    /\ importance = <<>>
    /\ data = <<>>
    /\ target = <<>>
    /\ maxDepth = DefaultMaxDepth
    /\ pc = "mounted"
    /\ legacyPath = <<>>
    /\ clicked = <<>>
    /\ remaining = <<>>
    /\ calls = {}
    /\ loader = NoCall

\* A click on the card of another dataset in App.tsx: the prop changes and
\* the effect calls loadData, which runs up to `await loadDataset(dataset)`.
SelectDataset ==
    /\ Len(runs) < MaxRuns
    /\ \E name \in DatasetNames \ {dataset} :
        /\ dataset' = name
        /\ runs' = Append(runs, Fetching(name))
    /\ loading' = TRUE
    /\ error' = Null
    /\ event' = [kind |-> "started", run |-> Len(runs) + 1]
    /\ IF component = Deferred
       THEN /\ result' = NoResult
            /\ path' = <<>>
            /\ formFeatures' = <<>>
            /\ importance' = <<>>
            /\ input' = <<>>
       ELSE UNCHANGED <<result, path, formFeatures, importance, input>>
    /\ UNCHANGED tree
    /\ UNCHANGED outside

\* The value of the error state after setError(message): a string.
ErrorText(message) == [text |-> message]

\* Mutant of Caught: loading is left as it is.
CaughtKeepsLoading(r, message) ==
    /\ error' = ErrorText(message)
    /\ UNCHANGED loading
    /\ runs' = [runs EXCEPT ![r].stage = "done", ![r].failed = TRUE]
    /\ event' = [kind |-> "failed", run |-> r]
    /\ UNCHANGED <<tree, formFeatures, input, importance, result, path, dataset>>
    /\ UNCHANGED outside

\* The end of run r in a catch block, or at the return for no data:
\* setError(message) and setLoading(false).
Caught(r, message) ==
    /\ error' = ErrorText(message)
    /\ loading' = FALSE
    /\ runs' = [runs EXCEPT ![r].stage = "done", ![r].failed = TRUE]
    /\ event' = [kind |-> "failed", run |-> r]
    /\ UNCHANGED <<tree, formFeatures, input, importance, result, path, dataset>>
    /\ UNCHANGED outside

\* The message the catch block of a failed load stores (DecisionTree.tsx,
\* line 88; part_000, lines 112 and 922).
LoadFailureMessage(err) ==
    IF component = Deferred THEN <<"Failed to load dataset: ">> \o err.message
    ELSE err.message

\* The statements of run r from buildDecisionTree to setLoading(false), on
\* the array parsed.
StoreTree(r, parsed) ==
    IF parsed.oversized THEN Caught(r, RangeError.message)
    ELSE /\ tree' = ViewOf(component, runs[r].dataset).tree
         /\ formFeatures' = ViewOf(component, runs[r].dataset).featureInputs
         /\ IF component = Earliest
            THEN UNCHANGED <<input, importance>>
            ELSE /\ input' = ViewOf(component, runs[r].dataset).defaultInputData
                 /\ importance' = ViewOf(component, runs[r].dataset).importance
         /\ loading' = FALSE
         /\ runs' = [runs EXCEPT ![r].stage = "done"]
         /\ event' = [kind |-> "stored", run |-> r]
         /\ UNCHANGED <<error, result, path, dataset>>
         /\ UNCHANGED outside

\* `await loadDataset(dataset)` of run r settles, and the run goes on to its
\* end or, in the deferred version, to the setTimeout.
LoadSettles ==
    \E r \in DOMAIN runs :
        /\ runs[r].stage = "fetching"
        /\ \E settled \in LoadResults :
            /\ settled.name = runs[r].dataset
            /\ IF settled.result.kind = "thrown"
               THEN Caught(r, LoadFailureMessage(settled.result.error))
               ELSE IF settled.result.value.rows = <<>> /\ component # Earliest
               THEN Caught(r, <<"No data available or empty dataset">>)
               ELSE IF component = Deferred
               THEN /\ runs' = [runs EXCEPT ![r].stage = "timer",
                                            ![r].parsed = settled.result.value]
                    /\ event' = [kind |-> "deferred", run |-> r]
                    /\ UNCHANGED <<tree, formFeatures, input, importance, result, path,
                                   dataset, loading, error>>
                    /\ UNCHANGED outside
               ELSE StoreTree(r, settled.result.value)

\* The callback of setTimeout(..., 100) of run r (part_000, lines 82-108).
TimerFires ==
    \E r \in DOMAIN runs :
        /\ runs[r].stage = "timer"
        /\ StoreTree(r, runs[r].parsed)

\* The values the form offers for a feature: the ends of a slider, the
\* options of a select.
OfferedValues(f) ==
    IF f.type = "numeric" THEN {Num(f.min), Num(f.max)}
    ELSE {Str(f.options[i]) : i \in DOMAIN f.options}

\* handleFeatureChange(name, value), from the form, which is rendered when
\* loading is false and error is null.
HandleFeatureChange ==
    /\ ~loading
    /\ error = Null
    /\ \E i \in DOMAIN formFeatures :
       \E value \in OfferedValues(formFeatures[i]) :
         LET name == formFeatures[i].name IN
         /\ event' = [kind |-> "changed"]
         /\ IF component = Earliest
            THEN /\ formFeatures' = WithValue(formFeatures, name, value)
                 /\ result' = IF tree # Null
                              THEN predictFromTree(tree, InputOf(formFeatures))
                              ELSE result
                 /\ UNCHANGED <<input, path>>
            ELSE /\ input' = Assign(input, name, value)
                 /\ result' = IF tree # Null
                              THEN predictFromTree(tree, Assign(input, name, value))
                              ELSE result
                 /\ path' = IF tree = Null THEN path
                            ELSE IF component = Synchronous
                            THEN legacyHighlightDecisionPath(tree,
                                                             Assign(input, name, value))
                            ELSE highlightDecisionPath(tree, Assign(input, name, value),
                                                       path)
                 /\ UNCHANGED formFeatures
    /\ UNCHANGED <<tree, importance, dataset, runs, loading, error>>
    /\ UNCHANGED outside

AppNext == SelectDataset \/ LoadSettles \/ TimerFires \/ HandleFeatureChange

AppSpec == AppInit /\ [][AppNext]_vars

\* A promise that is awaited settles and a timer that is set fires: the
\* event loop runs every callback that is due.
LiveAppSpec == AppSpec /\ WF_vars(LoadSettles) /\ WF_vars(TimerFires)

----------------------------------------------------------------------------
(* Vocabulary of the properties *)

IsTree(t) == t.kind \in {"leaf", "node"}
Built == pc # "start"

\* Every node of the tree t, t included.
RECURSIVE SubTrees(_)
SubTrees(t) ==
    IF t.kind = "node"
    THEN {t} \cup SubTrees(t.children[1]) \cup SubTrees(t.children[2])
    ELSE {t}

DecisionNodes(t) == {n \in SubTrees(t) : n.kind = "node"}
LeafNodes(t) == {n \in SubTrees(t) : n.kind = "leaf"}

\* The sum of the sample counts of the leaves below t.
RECURSIVE LeafSamples(_)
LeafSamples(t) ==
    IF t.kind = "node"
    THEN LeafSamples(t.children[1]) + LeafSamples(t.children[2])
    ELSE t.samples

ClassesOf(dist) == {dist[i].k : i \in DOMAIN dist}
CountOf(dist, class) == IF HasKey(dist, class) THEN Get(dist, class) ELSE 0

\* The feature columns of the dataset: every column but the target.
FeatureColumns == IF data = <<>> THEN {} ELSE Range(ObjectKeys(data[1])) \ {target}
CompleteInput(inp) == \A col \in FeatureColumns : HasKey(inp, col)

Last(seq) == seq[Len(seq)]

\* The builder sent record r of subset into the left part at the node t it
\* built for subset, and predictFromTree sends r left there too; and so on
\* down the branch r was placed in.
RECURSIVE FollowsPartition(_, _, _, _)
FollowsPartition(t, subset, tgt, r) ==
    IF t.kind # "node" THEN TRUE
    ELSE LET split == findBestSplit(subset, tgt)
             left == LeftOf(subset, split.feature, split.threshold)
             right == RightOf(subset, split.feature, split.threshold)
             placedLeft == r \in Range(left)
         IN  /\ GoesLeft(t, Get(r, t.feature)) = placedLeft
             /\ IF placedLeft
                THEN FollowsPartition(t.children[1], left, tgt, r)
                ELSE FollowsPartition(t.children[2], right, tgt, r)

\* predictFromTree's walk for inp reaches a decision node whose feature inp
\* has no value for.
RECURSIVE MissesFeature(_, _)
MissesFeature(t, inp) ==
    /\ t.kind = "node"
    /\ \/ ~HasKey(inp, t.feature)
       \/ MissesFeature(NextChild(t, Get(inp, t.feature)), inp)

\* Every record carries the same value in the target column.
SameLabel ==
    /\ data # <<>>
    /\ \A i \in DOMAIN data : Get(data[i], target) = Get(data[1], target)

\* The nodes a walk from t visits for inp, t first, choosing at every
\* decision node the child the branching rule names.
RECURSIVE VisitedBy(_, _)
VisitedBy(t, inp) ==
    IF t.kind = "node"
    THEN <<t>> \o VisitedBy(NextChild(t, Get(inp, t.feature)), inp)
    ELSE <<t>>

\* The candidates (feature, threshold) of a record set, in the order the
\* loops of findBestSplit visit them.
RECURSIVE CandidateList(_, _)
CandidateList(subset, features) ==
    IF features = <<>> THEN <<>>
    ELSE LET thresholds == CandidatesOf(subset, Head(features)) IN
         [i \in DOMAIN thresholds |->
            [feature |-> Head(features), threshold |-> thresholds[i]]]
         \o CandidateList(subset, Tail(features))

\* Both parts of the candidate have at least 5 records.
Admissible(subset, cand) ==
    /\ Len(LeftOf(subset, cand.feature, cand.threshold)) >= 5
    /\ Len(RightOf(subset, cand.feature, cand.threshold)) >= 5

CandidateGain(subset, tgt, cand) ==
    GainOf(subset, LeftOf(subset, cand.feature, cand.threshold),
           RightOf(subset, cand.feature, cand.threshold), tgt)

\* The columns of a record set whose cells are all numbers, the target and
\* the identifier columns left out.
NumericFeatures(subset, tgt) ==
    {f \in Range(ObjectKeys(subset[1])) \ {tgt, <<"i", "d">>,
                                            <<"l", "o", "a", "n", "_", "i", "d">>} :
        \A i \in DOMAIN subset : IsNumber(Get(subset[i], f))}

ColumnMin(subset, f) == SetMin({Get(subset[i], f).n : i \in DOMAIN subset})
ColumnMax(subset, f) == SetMax({Get(subset[i], f).n : i \in DOMAIN subset})

\* The index of the first record of subset whose cell f reads as category.
FirstSeen(subset, f, category) ==
    SetMin({i \in DOMAIN subset : String(Get(subset[i], f)) = category})

\* samples * gain of a decision node, in units of 1 / SCALE.
GainUnits(node) ==
    (node.samples * node.confidence.num) \div (node.confidence.den \div SCALE)

\* The sum, over the decision nodes of t at the positions of S, of
\* (samples / 100) * 0.9^depth * gain, in units of 1 / (100 * SCALE * 10^top).
RECURSIVE Contributions(_, _, _)
Contributions(t, S, top) ==
    IF S = {} THEN 0
    ELSE LET pos == CHOOSE p \in S : TRUE
             depth == Len(pos)
         IN  GainUnits(NodeAt(t, pos)) * Pow(9, depth) * Pow(10, top - depth)
                + Contributions(t, S \ {pos}, top)

DecisionPositions(t) == {pos \in Positions(t) : NodeAt(t, pos).kind = "node"}
Ranked == pc \in {"ranked", "predicted", "highlighted"}

----------------------------------------------------------------------------
(* Properties *)

\* C1: for a built tree and an input that has a value for every feature
\* column of the dataset, the last node of the decision path of
\* highlightDecisionPath is a leaf, and its name and confidence are the ones
\* predictFromTree returns.
C1_PathEndsAtPredictedLeaf ==
    (pc = "highlighted" /\ IsTree(tree) /\ CompleteInput(input))
        => /\ path # <<>>
           /\ Last(path).kind = "leaf"
           /\ Last(path).name = result.prediction
           /\ Last(path).confidence = result.confidence

\* C2: on a record of the dataset, keyed by its column names,
\* predictFromTree takes at every decision node the branch the builder's
\* partition placed the record in.
C2_PredictFollowsPartition ==
    (pc = "predicted" /\ IsTree(tree) /\ input \in Range(data))
        => FollowsPartition(tree, data, target, input)

\* C3: for fewer than 5 rows buildDecisionTree returns null, whatever the
\* target column and maxDepth.
C3_FewRowsNoTree ==
    (Built /\ Len(data) < 5) => tree = Null

C3_Witness ==
    /\ pc = "built" /\ Len(data) = 4 /\ maxDepth >= 1 /\ tree = Null

\* C4: at every decision node the children's distributions add up, class by
\* class, to the node's distribution, the children's sample counts add up
\* to the node's, and the node's sample count is the sum of the sample
\* counts of the leaves below it.
C4_ChildrenSumToParent ==
    (Built /\ IsTree(tree)) =>
        \A n \in DecisionNodes(tree) :
            LET l == n.children[1]
                r == n.children[2]
            IN  /\ l.samples + r.samples = n.samples
                /\ \A c \in ClassesOf(n.distribution) \cup ClassesOf(l.distribution)
                            \cup ClassesOf(r.distribution) :
                      CountOf(l.distribution, c) + CountOf(r.distribution, c)
                          = CountOf(n.distribution, c)
                /\ n.samples = LeafSamples(n)

C4_Witness ==
    /\ pc = "built" /\ IsTree(tree)
    /\ \E n \in DecisionNodes(tree) :
          /\ n.children[1].kind = "node" \/ n.children[2].kind = "node"
          /\ Cardinality(ClassesOf(n.distribution)) = 2

\* C5: every leaf's name is a class of maximal count in the leaf's
\* distribution, and its confidence is that count over the leaf's sample
\* count, a value in (0, 1].
C5_LeafIsMajority ==
    (Built /\ IsTree(tree)) =>
        \A n \in LeafNodes(tree) :
            /\ HasKey(n.distribution, n.name)
            /\ \A c \in ClassesOf(n.distribution) :
                  CountOf(n.distribution, c) <= CountOf(n.distribution, n.name)
            /\ n.confidence.num = CountOf(n.distribution, n.name)
            /\ n.confidence.den = n.samples
            /\ 0 < n.confidence.num /\ n.confidence.num <= n.confidence.den

C5_Witness ==
    /\ pc = "built" /\ IsTree(tree)
    /\ \E n \in LeafNodes(tree) :
          /\ Cardinality(ClassesOf(n.distribution)) = 2
          /\ n.confidence.num < n.confidence.den
          /\ n.name # ObjectEntries(n.distribution)[1].k

\* C6: when predictFromTree reaches a decision node whose feature the input
\* has no value for, the call fails instead of returning a prediction.
C6_MissingFeatureFails ==
    (pc = "predicted" /\ IsTree(tree) /\ MissesFeature(tree, input))
        => result = Threw

\* C7: when the target column is absent from the records (at least 5 of
\* them, maxDepth >= 1), buildDecisionTree fails and returns no node.
C7_MissingTargetFails ==
    (Built /\ Len(data) >= 5 /\ maxDepth >= 1 /\ ~HasKey(data[1], target))
        => tree = Threw

\* C8: calculateFeatureImportance returns weights in [0, 1] that sum to 1
\* when the tree has a decision node, and the empty list when the tree is a
\* single leaf or null.
C8_ImportanceSumsToOne ==
    (pc \in {"ranked", "predicted", "highlighted"}) =>
        IF IsTree(tree) /\ DecisionNodes(tree) # {}
        THEN /\ importance # <<>>
             /\ \A i \in DOMAIN importance :
                   /\ importance[i].importance.den > 0
                   /\ importance[i].importance.den = importance[1].importance.den
                   /\ 0 <= importance[i].importance.num
                   /\ importance[i].importance.num <= importance[i].importance.den
             /\ SumSeq([i \in DOMAIN importance |-> importance[i].importance.num])
                    = importance[1].importance.den
        ELSE importance = <<>>

C8_Witness ==
    /\ pc = "ranked" /\ IsTree(tree)
    /\ Cardinality(DecisionNodes(tree)) >= 2
    /\ Len(importance) = 2
    /\ importance[2].importance.num > 0

\* C10 as stated: the scenario records with target y and maxDepth 2 give a
\* decision node with a numeric split on x of positive gain whose children
\* are the leaves "a" and "b", each of confidence 1.
C10_ScenarioSplitsOnX ==
    (Built /\ data = ScenarioRecords /\ target = TargetColumn /\ maxDepth = 2)
        => /\ tree.kind = "node"
           /\ tree.threshold.t = "num"
           /\ tree.feature = formatFeatureName(<<"x">>)
           /\ tree.confidence.num > 0
           /\ \A i \in 1..2 :
                 /\ tree.children[i].kind = "leaf"
                 /\ tree.children[i].confidence.num = tree.children[i].confidence.den
           /\ tree.children[1].name = "a"
           /\ tree.children[2].name = "b"

\* C10 amended: the scenario records with target y and maxDepth 2 give a
\* single leaf "b" of confidence 3/5, 5 samples and distribution a: 2, b: 3,
\* since no split leaves 5 records on both sides.
C10_ScenarioIsOneLeaf ==
    (Built /\ data = ScenarioRecords /\ target = TargetColumn /\ maxDepth = 2)
        => /\ tree.kind = "leaf"
           /\ tree.name = "b"
           /\ tree.confidence = [num |-> 3, den |-> 5]
           /\ tree.samples = 5
           /\ CountOf(tree.distribution, "a") = 2
           /\ CountOf(tree.distribution, "b") = 3

C10_Witness ==
    /\ pc = "built" /\ data = ScenarioRecords /\ target = TargetColumn
    /\ maxDepth = 2 /\ tree.kind = "leaf"

\* C11: when every record carries the same target label (at least 5
\* records, target column present), buildDecisionTree returns a single leaf
\* named by that label, of confidence 1 and with as many samples as there
\* are records.
C11_SameLabelIsOneLeaf ==
    (Built /\ Len(data) >= 5 /\ SameLabel /\ HasKey(data[1], target))
        => /\ tree.kind = "leaf"
           /\ tree.name = String(Get(data[1], target))
           /\ tree.confidence.num = tree.confidence.den
           /\ tree.samples = Len(data)

\* C12: buildDecisionTree called with maxDepth = 0 on at least 5 records
\* returns a leaf carrying the majority label, its confidence, the sample
\* count and the distribution.
C12_DepthZeroIsLeaf ==
    (Built /\ Len(data) >= 5 /\ maxDepth = 0)
        => /\ tree.kind = "leaf"
           /\ tree = LeafOf(data, target)

\* C13: on a built tree and a complete input, predictFromTree returns
\* normally after a walk of at most height + 1 nodes, each the child of the
\* one before, that ends at a leaf; the prediction is that leaf's name and
\* the confidence is that leaf's confidence, a value in [0, 1].
C13_PredictStopsAtLeaf ==
    (pc = "predicted" /\ IsTree(tree) /\ CompleteInput(input)) =>
        LET visited == VisitedBy(tree, input) IN
        /\ result.kind = "ok"
        /\ Len(visited) <= Height(tree) + 1
        /\ visited[1] = tree
        /\ \A i \in 1..(Len(visited) - 1) :
              /\ visited[i].kind = "node"
              /\ visited[i + 1] \in Range(visited[i].children)
        /\ Last(visited) \in LeafNodes(tree)
        /\ result.prediction = Last(visited).name
        /\ result.confidence = Last(visited).confidence
        /\ 0 <= result.confidence.num
        /\ result.confidence.num <= result.confidence.den

C13_Witness ==
    /\ pc = "predicted" /\ IsTree(tree) /\ CompleteInput(input)
    /\ Height(tree) >= 2
    /\ Len(VisitedBy(tree, input)) = Height(tree) + 1
    /\ result.kind = "ok"
    /\ 0 < result.confidence.num
    /\ result.confidence.num < result.confidence.den

\* C14: after a click on a decision node that lies on the full path of a
\* complete input, what findPathToLeaf returned from that node is the
\* suffix, from that node on, of the path highlightDecisionPath computes from
\* the root, and it ends at the leaf whose name and confidence
\* predictFromTree returned.
C14_PartialPathIsSuffix ==
    LET full == highlightDecisionPath(tree, input, <<>>)
        start == Len(clicked) + 1
    IN  (/\ pc = "clicked" /\ CompleteInput(input) /\ input # <<>>
         /\ NodeAt(tree, clicked).kind = "node"
         /\ start <= Len(full)
         /\ getPathToRoot(tree, clicked) = SubSeq(full, 1, start))
            => /\ remaining = SubSeq(full, start, Len(full))
               /\ Last(remaining).kind = "leaf"
               /\ Last(remaining).name = result.prediction
               /\ Last(remaining).confidence = result.confidence

\* C15: every decision node's stored confidence, the gain of its split, is
\* above 0.01; and whenever the best split of a call of buildDecisionTree
\* has a gain of at most 0.01, or no candidate passed the size filter, the
\* call returns a leaf.
C15_DecisionGainAboveFloor ==
    (pc = "built" /\ IsTree(tree)) =>
        /\ \A n \in DecisionNodes(tree) :
              100 * n.confidence.num > n.confidence.den
        /\ \A call \in calls :
              LET split == call.split IN
              (100 * split.gain <= Len(call.subset) * SCALE)
                  => NodeAt(tree, call.pos).kind = "leaf"

C15_Witness ==
    /\ pc = "built" /\ tree.kind = "node"
    /\ \E call \in calls :
          LET split == call.split IN
          /\ call.depth >= 2
          /\ split.gain > 0
          /\ 100 * split.gain <= Len(call.subset) * SCALE
          /\ NodeAt(tree, call.pos).kind = "leaf"

\* C16: every node of the tree has at least 5 samples and every decision
\* node at least 10, and the split findBestSplit returns for a call of
\* buildDecisionTree, when it returns one, puts at least 5 records on
\* either side.
C16_NodesHaveFiveSamples ==
    (pc = "built" /\ IsTree(tree)) =>
        /\ \A n \in SubTrees(tree) : n.samples >= 5
        /\ \A n \in DecisionNodes(tree) : n.samples >= 10
        /\ \A call \in calls :
              LET split == call.split IN
              split.feature # <<>> =>
                  /\ Len(LeftOf(call.subset, split.feature, split.threshold)) >= 5
                  /\ Len(RightOf(call.subset, split.feature, split.threshold)) >= 5

C16_Witness ==
    /\ pc = "built" /\ tree.kind = "node"
    /\ \E call \in calls :
          LET cands == CandidateList(call.subset, CandidateFeatures(call.subset, target))
          IN  \E i \in DOMAIN cands :
                LET left == LeftOf(call.subset, cands[i].feature, cands[i].threshold)
                    right == RightOf(call.subset, cands[i].feature, cands[i].threshold)
                IN  /\ Len(left) >= 5 /\ Len(right) \in 1..4
                    /\ CandidateGain(call.subset, target, cands[i])
                          > call.split.gain

\* C17: for every call of findBestSplit, the candidates being listed with
\* the features in the column order of the first record, the numeric
\* thresholds of a feature from low to high and its categories in
\* first-seen order, the split returned is the first candidate of the list
\* among the admissible candidates of greatest gain; when no candidate is
\* admissible, no feature is returned.
C17_FirstBestCandidate ==
    (pc = "built" /\ IsTree(tree)) =>
        \A call \in calls :
            LET subset == call.subset
                features ==
                    SelectSeq(ObjectKeys(subset[1]),
                        LAMBDA f : f \notin {target, <<"i", "d">>,
                                             <<"l", "o", "a", "n", "_", "i", "d">>})
                cands == CandidateList(subset, features)
                \* the admissible candidates, each with its index and gain
                rated == UNION {
                    LET left == LeftOf(subset, cands[i].feature, cands[i].threshold)
                        right == RightOf(subset, cands[i].feature, cands[i].threshold)
                    IN  IF Len(left) >= 5 /\ Len(right) >= 5
                        THEN {[i |-> i, gain |-> GainOf(subset, left, right, target)]}
                        ELSE {} : i \in DOMAIN cands}
                split == call.split
            IN  /\ \A f \in Range(features) :
                      LET th == CandidatesOf(subset, f) IN
                      \A k \in 1..(Len(th) - 1) :
                          IF f \in NumericFeatures(subset, target)
                          THEN th[k].p * th[k + 1].q < th[k + 1].p * th[k].q
                          ELSE FirstSeen(subset, f, th[k].s)
                                  < FirstSeen(subset, f, th[k + 1].s)
                /\ IF rated = {}
                   THEN split.feature = <<>> /\ split.gain = NegInfinity
                   ELSE \E r \in rated :
                          /\ \A s \in rated : s.gain <= r.gain
                          /\ \A s \in rated : s.i < r.i => s.gain < r.gain
                          /\ split.feature = cands[r.i].feature
                          /\ split.threshold = cands[r.i].threshold
                          /\ split.gain = r.gain

C17_Witness ==
    /\ pc = "built" /\ tree.kind = "node"
    /\ \E call \in calls :
          LET subset == call.subset
              cands == CandidateList(subset, CandidateFeatures(subset, target))
              split == call.split
          IN  \E i, j \in DOMAIN cands :
                /\ i < j
                /\ cands[i].feature # cands[j].feature
                /\ Admissible(subset, cands[i]) /\ Admissible(subset, cands[j])
                /\ CandidateGain(subset, target, cands[i]) = split.gain
                /\ CandidateGain(subset, target, cands[j]) = split.gain
                /\ split.feature = cands[i].feature
                /\ split.gain > 0

\* C18: for every call of findBestSplit and every numeric feature, at most
\* 20 thresholds are evaluated, each lies strictly between the minimum and
\* the maximum of the feature over the call's records, and two consecutive
\* thresholds differ by (max - min) / min(20, max - min), up to the rounding
\* of the accumulation.
C18_ThresholdsInsideRange ==
    (pc = "built" /\ IsTree(tree)) =>
        \A call \in calls :
            \A f \in NumericFeatures(call.subset, target) :
                LET min == ColumnMin(call.subset, f)
                    max == ColumnMax(call.subset, f)
                    steps == IF max - min < 20 THEN max - min ELSE 20
                    unit == steps * RoundingScale
                    th == CandidatesOf(call.subset, f)
                    units(t) == t.p * (unit \div t.q)
                IN  /\ Len(th) <= 20
                    /\ \A k \in DOMAIN th :
                          /\ th[k].t = "num"
                          /\ min * unit < units(th[k])
                          /\ units(th[k]) < max * unit
                    /\ \A k \in 1..(Len(th) - 1) :
                          LET off == units(th[k + 1]) - units(th[k])
                                        - (max - min) * RoundingScale
                          IN  -1 <= off /\ off <= 1

C18_Witness ==
    /\ pc = "built" /\ tree.kind = "node"
    /\ \E call \in calls :
          \E f \in NumericFeatures(call.subset, target) :
              /\ ColumnMax(call.subset, f) - ColumnMin(call.subset, f) > 20
              /\ Len(CandidatesOf(call.subset, f)) = 20
              /\ call.split.feature = f

\* C19: for every call of findBestSplit and every numeric feature whose
\* values over the call's records satisfy max - min <= 1, no threshold is
\* evaluated and the split returned is not on that feature.
C19_NarrowRangeNeverSplits ==
    (pc = "built" /\ IsTree(tree)) =>
        \A call \in calls :
            \A f \in NumericFeatures(call.subset, target) :
                (ColumnMax(call.subset, f) - ColumnMin(call.subset, f) <= 1)
                    => /\ CandidatesOf(call.subset, f) = <<>>
                       /\ call.split.feature # f

C19_Witness ==
    /\ pc = "built" /\ IsTree(tree)
    /\ \E call \in calls :
          \E f \in NumericFeatures(call.subset, target) :
              LET min == ColumnMin(call.subset, f)
                  atMin == [feature |-> f, threshold |-> NumThreshold(min, 1)]
              IN  /\ ColumnMax(call.subset, f) - min = 1
                  /\ Admissible(call.subset, atMin)
                  /\ CandidateGain(call.subset, target, atMin)
                        > call.split.gain
                  /\ 100 * CandidateGain(call.subset, target, atMin)
                        > Len(call.subset) * SCALE

\* C20: for every call of findBestSplit the candidate features are the
\* columns of the first record other than the target, id and loan_id, the
\* split returned is on none of these three, and every decision node of the
\* tree carries the formatted name of one of the candidate columns.
C20_IdentifiersNeverSplit ==
    (pc = "built" /\ IsTree(tree)) =>
        LET excluded == {target, <<"i", "d">>, <<"l", "o", "a", "n", "_", "i", "d">>}
        IN  /\ \A call \in calls :
                  /\ Range(CandidateFeatures(call.subset, target))
                        = Range(ObjectKeys(call.subset[1])) \ excluded
                  /\ call.split.feature \notin excluded
            /\ \A n \in DecisionNodes(tree) :
                  \E f \in Range(ObjectKeys(data[1])) \ excluded :
                      n.feature = formatFeatureName(f)

C20_Witness ==
    /\ pc = "built" /\ tree.kind = "node"
    /\ HasKey(data[1], <<"i", "d">>)
    /\ HasKey(data[1], <<"l", "o", "a", "n", "_", "i", "d">>)
    /\ LET byId == [feature |-> <<"i", "d">>, threshold |-> NumThreshold(5, 1)]
       IN  /\ Admissible(data, byId)
           /\ \E call \in calls :
                 /\ call.pos = <<>>
                 /\ CandidateGain(data, target, byId) >= call.split.gain

\* Depth-first order of two positions of a tree: a node comes before its
\* descendants, and the left subtree before the right one.
RECURSIVE Before(_, _)
Before(p, q) ==
    IF p = <<>> THEN q # <<>>
    ELSE IF q = <<>> THEN FALSE
    ELSE IF Head(p) # Head(q) THEN Head(p) < Head(q)
    ELSE Before(Tail(p), Tail(q))

\* The first decision node on feature f that the traversal meets.
FirstSplitOn(t, f) ==
    CHOOSE p \in DecisionPositions(t) :
        /\ NodeAt(t, p).feature = f
        /\ \A q \in DecisionPositions(t) :
              NodeAt(t, q).feature = f /\ q # p => Before(p, q)

\* C21: for every tree, the importance calculateFeatureImportance reports
\* for a feature f is the sum over the decision nodes whose feature is f of
\* (samples / 100) * 0.9^depth * gain, the root being at depth 0, divided by
\* the same sum over all the decision nodes of the tree.
C21_ImportanceIsDecayedShare ==
    (Ranked /\ IsTree(tree)) =>
        LET nodes == DecisionPositions(tree)
            top == SetMax({Len(pos) : pos \in Positions(tree)})
            total == Contributions(tree, nodes, top)
        IN  \A i \in DOMAIN importance :
                LET own == {pos \in nodes :
                              NodeAt(tree, pos).feature = importance[i].feature}
                IN  /\ total > 0
                    /\ importance[i].importance.num = Contributions(tree, own, top)
                    /\ importance[i].importance.den = total

C21_Witness ==
    /\ pc = "ranked" /\ IsTree(tree)
    /\ Len(importance) >= 2
    /\ \E p, q \in DecisionPositions(tree) :
          /\ p # q
          /\ NodeAt(tree, p).feature = NodeAt(tree, q).feature
    /\ \E p, q \in DecisionPositions(tree) :
          /\ Len(p) < Len(q)
          /\ NodeAt(tree, p).feature # NodeAt(tree, q).feature

\* C22: the list calculateFeatureImportance returns holds each feature some
\* decision node of the tree splits on exactly once, in non-increasing order
\* of importance, and two features of equal importance stand in the order in
\* which the depth-first traversal from the root first met them.
C22_ImportanceListOrder ==
    Ranked /\ IsTree(tree) =>
        /\ {importance[i].feature : i \in DOMAIN importance}
              = {NodeAt(tree, p).feature : p \in DecisionPositions(tree)}
        /\ \A i, j \in DOMAIN importance :
              i < j =>
                /\ importance[i].feature # importance[j].feature
                /\ importance[i].importance.num >= importance[j].importance.num
                /\ importance[i].importance.num = importance[j].importance.num
                     => Before(FirstSplitOn(tree, importance[i].feature),
                               FirstSplitOn(tree, importance[j].feature))

\* A ranked list of three features in which the last two have the same
\* importance and less than the first.
C22_Witness ==
    /\ pc = "ranked"
    /\ IsTree(tree)
    /\ Len(importance) = 3
    /\ importance[1].importance.num > importance[2].importance.num
    /\ importance[2].importance.num = importance[3].importance.num
    /\ importance[2].importance.num > 0

\* C23: for maxDepth >= 1 no path from the root to a leaf of the tree that
\* buildDecisionTree returns holds more than maxDepth - 1 decision nodes,
\* and with maxDepth 1 the tree is a single leaf.
C23_DepthBound ==
    (pc = "built" /\ maxDepth >= 1 /\ IsTree(tree)) =>
        /\ \A pos \in Positions(tree) : Len(pos) <= maxDepth - 1
        /\ maxDepth = 1 => tree.kind = "leaf"

\* A call at the last level (its children are built with maxDepth 0) found
\* a split above the gain floor, and its node is a leaf below a decision
\* node.
C23_Witness ==
    /\ pc = "built" /\ maxDepth >= 2 /\ IsTree(tree)
    /\ \E call \in calls :
          /\ call.depth = 1
          /\ Len(call.pos) = maxDepth - 1
          /\ ~AtGainFloor(call.split, Len(call.subset))
          /\ NodeAt(tree, call.pos).kind = "leaf"

\* The places, in enumeration order, of the classes of the highest count.
TiedAtTop(distribution) ==
    LET entries == ObjectEntries(distribution)
        top == SetMax({entries[i].v : i \in DOMAIN entries})
    IN  {i \in DOMAIN entries : entries[i].v = top}

\* C24: when two or more classes have the highest count of a leaf, the
\* leaf's name is the one of them that the enumeration of the class counts
\* yields last, and the leaf's confidence is that class's count over the
\* leaf's sample count.
C24_TieGoesToLastClass ==
    (Built /\ IsTree(tree)) =>
        \A n \in LeafNodes(tree) :
            Cardinality(TiedAtTop(n.distribution)) >= 2 =>
                LET entries == ObjectEntries(n.distribution)
                    last == entries[SetMax(TiedAtTop(n.distribution))]
                IN  /\ n.name = last.k
                    /\ n.confidence.num = last.v
                    /\ n.confidence.den = n.samples

\* A leaf under a decision node whose two classes have the same count.
C24_Witness ==
    /\ pc = "built" /\ IsTree(tree) /\ tree.kind = "node"
    /\ \E n \in LeafNodes(tree) :
          /\ Cardinality(TiedAtTop(n.distribution)) >= 2
          /\ n.name # ObjectEntries(n.distribution)[1].k
          /\ 2 * n.confidence.num = n.confidence.den

\* The calls of findBestSplit whose node is a decision node of the tree.
DecisionCalls ==
    {call \in calls : /\ call.pos \in Positions(tree)
                      /\ NodeAt(tree, call.pos).kind = "node"}

\* The records of a call that predictFromTree sends to the left child of
\* the call's node.
SentLeft(call) ==
    SelectSeq(call.subset,
              LAMBDA row : GoesLeft(NodeAt(tree, call.pos),
                                    Get(row, call.split.feature)))

\* C25: a decision node's threshold is a number exactly when the builder
\* partitioned the node's records with the numeric rule, and the comparison
\* predictFromTree selects from the threshold's type sends to the left child
\* the records the builder put there.
C25_ThresholdTypeMatchesRule ==
    (pc = "built" /\ IsTree(tree)) =>
        \A call \in DecisionCalls :
            /\ (NodeAt(tree, call.pos).threshold.t = "num") <=> call.split.isNumeric
            /\ SentLeft(call) = SplitLeft(call.subset, call.split)
            /\ Len(SentLeft(call)) = NodeAt(tree, call.pos).children[1].samples

\* A tree with a decision node split by the numeric rule and one split by
\* the categorical rule.
C25_Witness ==
    /\ pc = "built" /\ IsTree(tree)
    /\ \E a, b \in DecisionCalls :
          /\ a.split.isNumeric
          /\ ~b.split.isNumeric
          /\ SentLeft(a) # <<>> /\ SentLeft(b) # <<>>

\* The first path of a call's network that answers ok with a text, 0 when
\* there is none.
FirstText(l) ==
    LET withText == {i \in DOMAIN l.responses : l.responses[i] \in TextKinds}
    IN  IF withText = {} THEN 0 ELSE SetMin(withText)

\* The paths fetched so far are the first paths of the list, in its order;
\* a call that has ended on a known name has fetched the paths up to the
\* first one that answered with a text (all of them when none did) and has
\* parsed that text and no other; a call on an unknown name has thrown
\* 'Invalid dataset' and fetched nothing.
FetchesInOrder(l) ==
    /\ l.fetched = SubSeq(possiblePaths(l.file), 1, Len(l.fetched))
    /\ (l.pc = "done" /\ l.datasetName \in DatasetNames) =>
          LET first == FirstText(l)
              paths == possiblePaths(l.file)
          IN  /\ Len(l.fetched) = (IF first = 0 THEN Len(paths) ELSE first)
              /\ l.parsed = (IF first = 0 THEN <<>>
                             ELSE <<TextOf(paths[first], l.responses[first])>>)
    /\ (l.pc = "done" /\ l.datasetName \notin DatasetNames) =>
          /\ l.result = Thrown(Error(<<"Invalid dataset">>))
          /\ l.fetched = <<>>

\* C30 as stated: the paths are tried in order up to the first text, only
\* that text is parsed, and a call on a known name throws only if no path
\* answered with a text.
C30_ThrowsOnlyWithoutText ==
    loader.pc # "none" =>
        /\ FetchesInOrder(loader)
        /\ (/\ loader.pc = "done"
            /\ loader.datasetName \in DatasetNames
            /\ loader.result.kind = "thrown") => FirstText(loader) = 0

\* C30, amended: the paths are tried in order up to the first text, only
\* that text is parsed, and a call on a known name throws exactly when no
\* path answered with a text or the text it stopped at holds no record.
C30_ThrowsWithoutRecords ==
    loader.pc # "none" =>
        /\ FetchesInOrder(loader)
        /\ (loader.pc = "done" /\ loader.datasetName \in DatasetNames) =>
              (loader.result.kind = "thrown"
                  <=> \/ FirstText(loader) = 0
                      \/ loader.responses[FirstText(loader)] = "header")

\* A call that skipped a path that was not ok, one that rejected and one
\* with an empty body, stopped at a header without records and threw.
C30_Witness ==
    /\ loader.pc = "done"
    /\ loader.datasetName \in DatasetNames
    /\ loader.responses = <<"notOk", "rejects", "empty", "header">>
    /\ loader.result = Thrown(Error(<<"Invalid dataset: ", loader.datasetName>>))
    /\ Len(loader.fetched) = 4
    /\ Len(loader.parsed) = 1

\* The input the form shows: inputData, or the values held in features in
\* the version that has no inputData.
FormInput == IF component = Earliest THEN InputOf(formFeatures) ELSE input

\* C26: after handleFeatureChange on a component that holds a tree, the
\* stored prediction and confidence are those predictFromTree yields for the
\* input that has the new value.
C26_ChangePredictsUpdatedInput ==
    (event.kind = "changed" /\ tree # Null) =>
        result = predictFromTree(tree, FormInput)

\* Every run of loadData has ended, and none of them failed.
AllRunsStored ==
    \A r \in DOMAIN runs : runs[r].stage = "done" /\ ~runs[r].failed

FeatureNames(featureInputs) ==
    [i \in DOMAIN featureInputs |-> featureInputs[i].name]

\* C27: once every run of loadData has ended, treeData, features and
\* featureImportance are those of the dataset selected last.
C27_LastSelectionWins ==
    (pc = "mounted" /\ AllRunsStored) =>
        LET latest == Computed(component, dataset, FileRecords(FileOf(dataset)))
        IN  /\ tree = latest.tree
            /\ FeatureNames(formFeatures) = FeatureNames(latest.featureInputs)
            /\ component # Earliest => importance = latest.importance

\* C28: every run of loadData ends, the callback that ends it leaves
\* loading false, and the one that ends a failed run leaves error non-null.
C28_RunsEndNotLoading ==
    /\ \A r \in 1..MaxRuns :
          (Len(runs) >= r) ~> (Len(runs) >= r /\ runs[r].stage = "done")
    /\ [](event.kind \in {"stored", "failed"} =>
            /\ ~loading
            /\ event.kind = "failed" => error # Null)

\* Two runs have ended in the version that defers the build: one stored its
\* tree, the other failed in the timer because the build threw.
C28_Witness ==
    /\ component = Deferred
    /\ Len(runs) = 2
    /\ \A r \in DOMAIN runs : runs[r].stage = "done"
    /\ ~runs[1].failed /\ runs[2].failed
    /\ event = [kind |-> "failed", run |-> 2]
    /\ error = ErrorText(RangeError.message)
    /\ ~loading

\* C29: when the tree of the dataset selected after a change of the prop
\* has been stored, prediction, confidence and selectedPath hold no value.
C29_StoredTreeClearsPrediction ==
    (/\ event.kind = "stored"
     /\ event.run >= 2
     /\ runs[event.run].dataset = dataset) =>
        /\ result = NoResult
        /\ path = <<>>

============================================================================
